---- MODULE Spec2Model ----
(***************************************************************************)
(* PawGuard: the claims pool (contracts/PawPool.sol), the jury registry    *)
(* (contracts/JuryIdentity.sol), the veterinarian credential registry      *)
(* (VeterinarianCredential.sol) and the pet registry (PetNFT.sol).  One    *)
(* action per external function; a call that reverts changes nothing, so   *)
(* it is a step that does not exist.                                       *)
(*                                                                         *)
(* Time is counted in days (3 days = 3).  Token amounts are counted in     *)
(* base units, with Unit standing for 10**18 base units (one token).       *)
(***************************************************************************)
EXTENDS Integers, Sequences, FiniteSets, TLC

(* ------------------------------ bounds --------------------------------- *)

\* Jury candidates 1..NumParticipants; the first NumOnboarded are onboarded.
NumParticipants == 22
NumOnboarded == 21
\* Claim ids 1..MaxClaims.
MaxClaims == 1
\* block.timestamp runs from StartTime to MaxTime.
StartTime == 4
MaxTime == 8
\* In the voting specification consecutive votes change value at most MaxFlips times.
MaxFlips == 1
\* In the panel specification a participant is sybil-checked at most MaxChecks times.
MaxChecks == 2
\* Base units per token (10**18 in the deployment).
Unit == 100
\* In the fund and credential specifications a pet gets at most MaxRecords
\* medical records.
MaxRecords == 2
\* In the fund specification premiums are accepted until the three pools
\* hold MaxDeposits base premiums, and GUARD is minted to a holder of less
\* than MaxDeposits base premiums.
MaxDeposits == 2
\* In the credential reputation specification each of the two counters of a
\* credential is raised at most MaxBumps times.
MaxBumps == 3
\* recordVote names claim ids 1..MaxVotes.  The reputation of a juror
\* changes at most MaxVotes times in the standing specification and at most
\* MaxDeltas times in the reputation specification.
MaxDeltas == 3
MaxVotes == 2
\* Pet ids 1..MaxPets; pet 1 is registered by the fixture.
MaxPets == 2

(* ------------------------- program constants --------------------------- *)

REQUIRED_JURY_VOTES == 21
juryVotingPeriod == 3
basePremium == 100 * Unit
claimSubmissionFee == 10 * Unit
PAW_REWARD_PER_JUROR == 5 * Unit
minimumStakeForJury == 100 * Unit
minimumReputationForJury == 300
inactivityPenaltyPeriod == 180

(* ------------------------------ addresses ------------------------------ *)

ZeroAddress == 0
Participants == 1..NumParticipants
Onboarded == 1..NumOnboarded
Admin == NumParticipants + 1
PetOwner == NumParticipants + 2
Vet == NumParticipants + 3
PoolAddr == NumParticipants + 4
Vet2 == NumParticipants + 5
Accounts == Participants \cup {Admin, PetOwner, Vet, Vet2}
Holders == Accounts \cup {PoolAddr}

ClaimIds == 1..MaxClaims
PetIds == 1..MaxPets

VARIABLES
    now,
    claimIdCounter, claims, claimHasVoted, claimVoteApproved,
    pawStakes, stakers,
    immediatePayoutPool, stableYieldPool, riskReservePool,
    guardBalance, pawBalance,
    juryMembers, hasVotedOnClaim, sybilChecks, usedIdentityHashes, reputationHistory,
    didToAddress, isVerifier, registrationEnabled, openRegistration,
    credentials, vetDidToAddress, isIssuer,
    petRecords, petIdCounter, petBalance, petOperators

claimVars == <<claimIdCounter, claims, claimHasVoted, claimVoteApproved>>
stakeVars == <<pawStakes, stakers>>
fundVars == <<immediatePayoutPool, stableYieldPool, riskReservePool>>
tokenVars == <<guardBalance, pawBalance>>
juryConfig == <<didToAddress, isVerifier, registrationEnabled, openRegistration>>
juryVars == <<juryMembers, hasVotedOnClaim, sybilChecks, usedIdentityHashes, reputationHistory,
             juryConfig>>
credConfig == <<vetDidToAddress, isIssuer>>
credVars == <<credentials, credConfig>>
petTokenVars == <<petIdCounter, petBalance, petOperators>>
petVars == <<petRecords, petTokenVars>>
vars == <<now, claimVars, stakeVars, fundVars, tokenVars, juryVars, credVars, petVars>>

(* ------------------------------ zero values ---------------------------- *)

EmptyClaim ==
    [petId |-> 0, owner |-> ZeroAddress, treatingVet |-> ZeroAddress,
     vetDiagnosisIPFSHash |-> "", submissionTimestamp |-> 0,
     requestedPayoutAmount |-> 0, status |-> "Pending", juryMembers |-> <<>>,
     approveVotes |-> 0, rejectVotes |-> 0,
     payoutAddresses |-> <<>>, payoutAmounts |-> <<>>]

EmptyMember ==
    [did |-> "", memberAddress |-> ZeroAddress, identityProofIPFSHash |-> "",
     status |-> "Unverified", registrationDate |-> 0, reputationScore |-> 0, totalVotes |-> 0, consistentVotes |-> 0,
     lastVoteTimestamp |-> 0, isActive |-> FALSE, stakingAmount |-> 0,
     participatedClaims |-> <<>>]

EmptyPet == [owner |-> ZeroAddress, authorizedVets |-> <<>>, medicalHistoryLength |-> 0]

EmptyCredential ==
    [did |-> "", vetAddress |-> ZeroAddress, licenseNumber |-> "",
     credentialIPFSHash |-> "", issuanceDate |-> 0, expirationDate |-> 0,
     status |-> "Active", issuer |-> ZeroAddress,
     reputationScore |-> 0, totalRecordsIssued |-> 0, totalClaimsApproved |-> 0]

(* ------------------------------ helpers -------------------------------- *)

Range(s) == {s[i] : i \in 1..Len(s)}

RECURSIVE SeqOfInterval(_, _)
SeqOfInterval(a, b) == IF a > b THEN <<>> ELSE <<a>> \o SeqOfInterval(a + 1, b)

\* ERC20 _transfer: the caller checks that the sender's balance covers amt.
Transfer(bal, from, to, amt) == [bal EXCEPT ![from] = @ - amt, ![to] = @ + amt]

\* How often a occurs in the sequence s.
Occurrences(s, a) == Cardinality({i \in 1..Len(s) : s[i] = a})

(* --------------------------- initial state ----------------------------- *)

\* The DID a participant registers with, and the DIDs of the model.
DidOf(a) == "did:pawguard:juror:" \o ToString(a)
Dids == {""} \cup {DidOf(a) : a \in Participants}

\* The DID a credential is issued under, and the DIDs and licence numbers
\* of the model ("" is the empty string a call may pass).
VetDid(v) == "did:pawguard:vet:" \o ToString(v)
VetDids == {""} \cup {VetDid(v) : v \in {Vet, Vet2}}
LicenseNumbers == {"", "VET-2025-001", "VET-2025-002"}

\* The deployment (scripts/deploy.js) followed by the fixture of the
\* integration test: a credentialed vet, one pet whose owner authorised the
\* vet, and NumOnboarded jurors, each registered, sybil-checked with an
\* identity hash of its own, and staking the minimum stake.
OnboardedMember(a) ==
    [did |-> DidOf(a), memberAddress |-> a, identityProofIPFSHash |-> "QmJurorIdentity",
     status |-> "Verified", registrationDate |-> StartTime, reputationScore |-> 500, totalVotes |-> 0, consistentVotes |-> 0,
     lastVoteTimestamp |-> 0, isActive |-> TRUE, stakingAmount |-> minimumStakeForJury,
     participatedClaims |-> <<>>]

Init ==
    /\ now = StartTime
    /\ claimIdCounter = 0
    /\ claims = [c \in ClaimIds |-> EmptyClaim]
    /\ claimHasVoted = [c \in ClaimIds |-> {}]
    /\ claimVoteApproved = [c \in ClaimIds |-> {}]
    /\ pawStakes = [a \in Accounts |-> IF a \in Onboarded THEN minimumStakeForJury ELSE 0]
    /\ stakers = SeqOfInterval(1, NumOnboarded)
    /\ immediatePayoutPool = 0
    /\ stableYieldPool = 0
    /\ riskReservePool = 0
    /\ guardBalance = [a \in Holders |->
                          IF a = PetOwner THEN basePremium + 2 * claimSubmissionFee ELSE 0]
    /\ pawBalance = [a \in Holders |->
                          IF a = PoolAddr THEN NumOnboarded * minimumStakeForJury
                          ELSE IF a \in Participants \ Onboarded THEN minimumStakeForJury
                          ELSE 0]
    /\ juryMembers = [a \in Accounts |->
                          IF a \in Onboarded THEN OnboardedMember(a) ELSE EmptyMember]
    /\ hasVotedOnClaim = [a \in Accounts |-> {}]
    /\ sybilChecks = [a \in Accounts |->
                          IF a \in Onboarded
                          THEN <<[identityHash |-> a, timestamp |-> StartTime,
                                  verifier |-> Admin, passed |-> TRUE]>>
                          ELSE <<>>]
    /\ usedIdentityHashes = Onboarded
    /\ reputationHistory = [a \in Accounts |-> <<>>]
    /\ didToAddress = [d \in Dids |->
                          IF \E a \in Onboarded : d = DidOf(a)
                          THEN CHOOSE a \in Onboarded : d = DidOf(a)
                          ELSE ZeroAddress]
    /\ isVerifier = {Admin}
    /\ registrationEnabled = Onboarded
    /\ openRegistration = FALSE
    /\ credentials = [a \in Accounts |->
                          IF a = Vet
                          THEN [did |-> VetDid(Vet), vetAddress |-> Vet,
                                licenseNumber |-> "VET-2025-001",
                                credentialIPFSHash |-> "QmVetCredential",
                                issuanceDate |-> StartTime,
                                expirationDate |-> StartTime + 365,
                                status |-> "Active", issuer |-> Admin,
                                reputationScore |-> 500,
                                totalRecordsIssued |-> 0, totalClaimsApproved |-> 0]
                          ELSE EmptyCredential]
    /\ vetDidToAddress = [d \in VetDids |-> IF d = VetDid(Vet) THEN Vet ELSE ZeroAddress]
    /\ isIssuer = {Admin}
    /\ petRecords = [p \in PetIds |->
                          IF p = 1
                          THEN [owner |-> PetOwner, authorizedVets |-> <<Vet>>,
                                medicalHistoryLength |-> 0]
                          ELSE EmptyPet]
    /\ petIdCounter = 1
    /\ petBalance = [p \in PetIds |->
                          [a \in Accounts |-> IF p = 1 /\ a = PetOwner THEN 1 ELSE 0]]
    /\ petOperators = {}

(* ------------------------ PetNFT (read side) --------------------------- *)

getPetOwner(p) == IF p \in PetIds THEN petRecords[p].owner ELSE ZeroAddress

getMedicalHistoryLength(p) == IF p \in PetIds THEN petRecords[p].medicalHistoryLength ELSE 0

isAuthorizedVet(p, v) == p \in PetIds /\ v \in Range(petRecords[p].authorizedVets)

(* --------------------- VeterinarianCredential -------------------------- *)

\* A validity test that still accepts a credential at its expiration date.
isValidCredentialAtExpiry(v) ==
    /\ credentials[v].vetAddress # ZeroAddress
    /\ credentials[v].status = "Active"
    /\ ~(credentials[v].expirationDate < now)

isValidCredential(v) ==
    /\ credentials[v].vetAddress # ZeroAddress
    /\ credentials[v].status = "Active"
    /\ ~(credentials[v].expirationDate <= now)

\* incrementClaimsApproved: the credential registry after the call.  The
\* credentialExists modifier is the caller's guard (CredentialExists).
CredentialExists(v) == credentials[v].vetAddress # ZeroAddress

incrementClaimsApproved(creds, v) ==
    [creds EXCEPT ![v].totalClaimsApproved = @ + 1,
                  ![v].reputationScore = IF @ < 1000 THEN @ + 2 ELSE @]

incrementRecordsIssued(creds, v) ==
    [creds EXCEPT ![v].totalRecordsIssued = @ + 1,
                  ![v].reputationScore = IF @ < 1000 THEN @ + 1 ELSE @]

\* incrementRecordsIssued called from outside: it is external and checks
\* only that the credential exists.
incrementRecordsIssuedCall(sender, vetAddress) ==
    /\ CredentialExists(vetAddress)
    /\ credentials' = incrementRecordsIssued(credentials, vetAddress)
    /\ UNCHANGED <<now, claimVars, stakeVars, fundVars, tokenVars, juryVars, credConfig,
                   petVars>>

\* incrementClaimsApproved called from outside: external as well.
incrementClaimsApprovedCall(sender, vetAddress) ==
    /\ CredentialExists(vetAddress)
    /\ credentials' = incrementClaimsApproved(credentials, vetAddress)
    /\ UNCHANGED <<now, claimVars, stakeVars, fundVars, tokenVars, juryVars, credConfig,
                   petVars>>

\* The onlyIssuer modifier; the administrator deployed the registry.
IsAuthorizedIssuer(sender) == sender \in isIssuer \/ sender = Admin

\* updateReputation of the credential registry (the jury registry has an
\* updateReputation of its own, below).
updateCredentialReputation(sender, vetAddress, newScore) ==
    /\ IsAuthorizedIssuer(sender)
    /\ CredentialExists(vetAddress)
    /\ newScore <= 1000
    /\ credentials' = [credentials EXCEPT ![vetAddress].reputationScore = newScore]
    /\ UNCHANGED <<now, claimVars, stakeVars, fundVars, tokenVars, juryVars, credConfig,
                   petVars>>

issueCredential(sender, vetAddress, did, licenseNumber, credentialIPFSHash, expirationDate) ==
    /\ IsAuthorizedIssuer(sender)
    /\ vetAddress # ZeroAddress
    /\ credentials[vetAddress].vetAddress = ZeroAddress
    /\ vetDidToAddress[did] = ZeroAddress
    /\ expirationDate > now
    /\ Len(did) > 0
    /\ Len(licenseNumber) > 0
    /\ credentials' = [credentials EXCEPT ![vetAddress] =
                          [did |-> did, vetAddress |-> vetAddress,
                           licenseNumber |-> licenseNumber,
                           credentialIPFSHash |-> credentialIPFSHash,
                           issuanceDate |-> now, expirationDate |-> expirationDate,
                           status |-> "Active", issuer |-> sender,
                           reputationScore |-> 500,
                           totalRecordsIssued |-> 0, totalClaimsApproved |-> 0]]
    /\ vetDidToAddress' = [vetDidToAddress EXCEPT ![did] = vetAddress]
    /\ UNCHANGED <<now, claimVars, stakeVars, fundVars, tokenVars, juryVars, isIssuer,
                   petVars>>

revokeCredential(sender, vetAddress) ==
    /\ IsAuthorizedIssuer(sender)
    /\ CredentialExists(vetAddress)
    /\ credentials' = [credentials EXCEPT ![vetAddress].status = "Revoked"]
    /\ UNCHANGED <<now, claimVars, stakeVars, fundVars, tokenVars, juryVars, credConfig,
                   petVars>>

suspendCredential(sender, vetAddress) ==
    /\ IsAuthorizedIssuer(sender)
    /\ CredentialExists(vetAddress)
    /\ credentials[vetAddress].status = "Active"
    /\ credentials' = [credentials EXCEPT ![vetAddress].status = "Suspended"]
    /\ UNCHANGED <<now, claimVars, stakeVars, fundVars, tokenVars, juryVars, credConfig,
                   petVars>>

\* A reactivation test that only turns down an Active credential.
ReactivatableStatusNotActive(status) == status # "Active"

\* The status reactivateCredential requires.
ReactivatableStatus(status) == status = "Suspended"

reactivateCredential(sender, vetAddress) ==
    /\ IsAuthorizedIssuer(sender)
    /\ CredentialExists(vetAddress)
    /\ ReactivatableStatus(credentials[vetAddress].status)
    /\ credentials' = [credentials EXCEPT ![vetAddress].status = "Active"]
    /\ UNCHANGED <<now, claimVars, stakeVars, fundVars, tokenVars, juryVars, credConfig,
                   petVars>>

\* A renewal that makes every credential Active.
RenewedStatusActive(status) == "Active"

\* The status a renewal leaves.
RenewedStatus(status) == IF status = "Expired" THEN "Active" ELSE status

renewCredential(sender, vetAddress, newExpirationDate) ==
    /\ IsAuthorizedIssuer(sender)
    /\ CredentialExists(vetAddress)
    /\ newExpirationDate > now
    /\ newExpirationDate > credentials[vetAddress].expirationDate
    /\ credentials' = [credentials EXCEPT
                          ![vetAddress].expirationDate = newExpirationDate,
                          ![vetAddress].status = RenewedStatus(@)]
    /\ UNCHANGED <<now, claimVars, stakeVars, fundVars, tokenVars, juryVars, credConfig,
                   petVars>>

(* ---------------------------- GuardStableCoin ------------------------- *)

\* mint, which only the owner of the token (the deployer) may call.
mint(sender, to, amount) ==
    /\ sender = Admin
    /\ to # ZeroAddress
    /\ guardBalance' = [guardBalance EXCEPT ![to] = @ + amount]
    /\ UNCHANGED <<now, claimVars, stakeVars, fundVars, pawBalance, juryVars, credVars,
                   petVars>>

(* ------------------------ PetNFT (write side) -------------------------- *)

authorizeVet(sender, petId, vetAddress) ==
    /\ petId \in PetIds
    /\ sender = petRecords[petId].owner
    /\ vetAddress # ZeroAddress
    /\ isValidCredential(vetAddress)
    /\ petRecords' = [petRecords EXCEPT ![petId].authorizedVets =
                          IF vetAddress \in Range(@) THEN @ ELSE Append(@, vetAddress)]
    /\ UNCHANGED <<now, claimVars, stakeVars, fundVars, tokenVars, juryVars, credVars,
                   petTokenVars>>

addMedicalRecord(sender, petId, recordIPFSHash) ==
    /\ isAuthorizedVet(petId, sender)
    /\ Len(recordIPFSHash) > 0
    /\ isValidCredential(sender)
    /\ petRecords' = [petRecords EXCEPT ![petId].medicalHistoryLength = @ + 1]
    /\ credentials' = incrementRecordsIssued(credentials, sender)
    /\ UNCHANGED <<now, claimVars, stakeVars, fundVars, tokenVars, juryVars, credConfig,
                   petTokenVars>>

\* registerPet: the next pet id, one token of it minted to _owner (ERC1155
\* _mint turns the zero address down) and the record's owner set.
registerPet(sender, owner, basicInfoIPFSHash) ==
    LET newPetId == petIdCounter + 1 IN
    /\ sender = Admin
    /\ owner # ZeroAddress
    /\ newPetId \in PetIds
    /\ petIdCounter' = newPetId
    /\ petBalance' = [petBalance EXCEPT ![newPetId][owner] = @ + 1]
    /\ petRecords' = [petRecords EXCEPT ![newPetId].owner = owner]
    /\ UNCHANGED <<now, claimVars, stakeVars, fundVars, tokenVars, juryVars, credVars,
                   petOperators>>

\* ERC1155 setApprovalForAll.
setApprovalForAll(sender, operator, approved) ==
    /\ operator # ZeroAddress
    /\ petOperators' = IF approved THEN petOperators \cup {<<sender, operator>>}
                                   ELSE petOperators \ {<<sender, operator>>}
    /\ UNCHANGED <<now, claimVars, stakeVars, fundVars, tokenVars, juryVars, credVars,
                   petRecords, petIdCounter, petBalance>>

\* ERC1155 safeTransferFrom with the _update hook of PetNFT: the balances
\* move by value (which may be 0), then the record's owner must be from and
\* becomes to.
safeTransferFrom(sender, from, to, id, value) ==
    /\ from = sender \/ <<from, sender>> \in petOperators
    /\ to # ZeroAddress
    /\ from # ZeroAddress
    /\ id \in PetIds
    /\ petBalance[id][from] >= value
    /\ petRecords[id].owner = from
    /\ petBalance' = [petBalance EXCEPT ![id] = Transfer(@, from, to, value)]
    /\ petRecords' = [petRecords EXCEPT ![id].owner = to]
    /\ UNCHANGED <<now, claimVars, stakeVars, fundVars, tokenVars, juryVars, credVars,
                   petIdCounter, petOperators>>

(* --------------------------- JuryIdentity ------------------------------ *)

\* An eligibility test that turns a member down on the last day of the
\* inactivity period already.
isEligibleForJuryStrict(a) ==
    LET member == juryMembers[a] IN
    /\ member.memberAddress # ZeroAddress
    /\ member.status = "Verified"
    /\ member.isActive
    /\ ~(member.reputationScore < minimumReputationForJury)
    /\ ~(member.stakingAmount < minimumStakeForJury)
    /\ ~(member.lastVoteTimestamp > 0
         /\ now >= member.lastVoteTimestamp + inactivityPenaltyPeriod)

isEligibleForJury(a) ==
    LET member == juryMembers[a] IN
    /\ member.memberAddress # ZeroAddress
    /\ member.status = "Verified"
    /\ member.isActive
    /\ ~(member.reputationScore < minimumReputationForJury)
    /\ ~(member.stakingAmount < minimumStakeForJury)
    /\ ~(member.lastVoteTimestamp > 0
         /\ now > member.lastVoteTimestamp + inactivityPenaltyPeriod)

\* A clamp without the upper bound.
ClampReputationAtZero(score, change) ==
    LET newScore == score + change IN
    IF newScore < 0 THEN 0 ELSE newScore

\* _updateReputation: the clamped score.
ClampReputation(score, change) ==
    LET newScore == score + change IN
    IF newScore < 0 THEN 0 ELSE IF newScore > 1000 THEN 1000 ELSE newScore

\* A consistency that divides before it multiplies.
getVotingConsistencyDividingFirst(a) ==
    IF juryMembers[a].totalVotes = 0 THEN 0
    ELSE (juryMembers[a].consistentVotes \div juryMembers[a].totalVotes) * 100

\* getVotingConsistency of a registered member (the call reverts for others).
getVotingConsistency(a) ==
    IF juryMembers[a].totalVotes = 0 THEN 0
    ELSE (juryMembers[a].consistentVotes * 100) \div juryMembers[a].totalVotes

\* The registry as three of its mappings, so that a call made in the middle
\* of another contract's function can be applied to an intermediate state.
Registry(jm, hv, rh) == [ok |-> TRUE, juryMembers |-> jm, hasVotedOnClaim |-> hv,
                         reputationHistory |-> rh]

\* recordVote(_member, _claimId, _votedWithMajority) called by sender on the
\* registry reg; ok is FALSE where the call reverts.
recordVoteOn(reg, sender, member, claimId, votedWithMajority) ==
    IF ~reg.ok
       \/ reg.juryMembers[member].memberAddress = ZeroAddress
       \/ claimId \in reg.hasVotedOnClaim[member]
    THEN [reg EXCEPT !.ok = FALSE]
    ELSE LET change == IF votedWithMajority THEN 5 ELSE -2
             reason == IF votedWithMajority THEN "Voted with majority"
                                            ELSE "Voted against majority"
         IN [ok |-> TRUE,
             juryMembers |->
                 [reg.juryMembers EXCEPT
                     ![member].totalVotes = @ + 1,
                     ![member].lastVoteTimestamp = now,
                     ![member].participatedClaims = Append(@, claimId),
                     ![member].consistentVotes = IF votedWithMajority THEN @ + 1 ELSE @,
                     ![member].reputationScore = ClampReputation(@, change)],
             hasVotedOnClaim |->
                 [reg.hasVotedOnClaim EXCEPT ![member] = @ \cup {claimId}],
             reputationHistory |->
                 [reg.reputationHistory EXCEPT
                     ![member] = Append(@, [timestamp |-> now, scoreChange |-> change,
                                            reason |-> reason, updatedBy |-> sender])]]

RECURSIVE recordVotes(_, _, _, _, _, _, _)
\* The loop of finalizeClaimVoting over the panel, from position i on.
recordVotes(reg, panel, i, claimId, claimApproved, voted, votedApprove) ==
    IF i > Len(panel) THEN reg
    ELSE LET juror == panel[i]
             next == IF juror \in voted
                     THEN recordVoteOn(reg, PoolAddr, juror, claimId,
                                       (juror \in votedApprove) = claimApproved)
                     ELSE reg
         IN recordVotes(next, panel, i + 1, claimId, claimApproved, voted, votedApprove)

(* ------------------------------ PawPool -------------------------------- *)

\* A risk score that ignores the medical history.
_calculateRiskScoreFlat(p) == 100

_calculateRiskScore(p) == 100 + getMedicalHistoryLength(p) * 10

getPetPremium(p) == (basePremium * _calculateRiskScore(p)) \div 100

\* A removal that pops the last staker without moving it to a's place.
RemoveStakerLast(s, a) ==
    IF a \notin Range(s) THEN s ELSE SubSeq(s, 1, Len(s) - 1)

\* _stakers after the swap-and-pop removal of a.
RemoveStaker(s, a) ==
    IF a \notin Range(s) THEN s
    ELSE LET i == CHOOSE k \in 1..Len(s) : s[k] = a /\ \A m \in 1..(k - 1) : s[m] # a
         IN [k \in 1..(Len(s) - 1) |-> IF k = i THEN s[Len(s)] ELSE s[k]]

\* The stakers that pass isEligibleForJury, in the order of _stakers.
EligibleJurors == SelectSeq(stakers, LAMBDA a : isEligibleForJury(a))

\* A majority test that also approves at exactly two thirds.
MajorityApprovedAtLeast(approveVotes, rejectVotes) ==
    approveVotes * 3 >= (approveVotes + rejectVotes) * 2

\* A majority test that approves a claim nobody voted on.
MajorityApprovedByDefault(approveVotes, rejectVotes) ==
    approveVotes + rejectVotes = 0 \/ approveVotes * 3 > (approveVotes + rejectVotes) * 2

\* The 2/3 majority test of _evaluateClaim.
MajorityApproved(approveVotes, rejectVotes) ==
    approveVotes * 3 > (approveVotes + rejectVotes) * 2

\* A split with the two shares swapped.
PayoutToVetFifth(totalPayout) == (totalPayout * 20) \div 100

\* The share of the treating vet in _processPayout.
PayoutToVet(totalPayout) == (totalPayout * 80) \div 100

\* Recipients pushed with the owner first.
PayoutRecipientsOwnerFirst(vetAddress, ownerAddress) == <<ownerAddress, vetAddress>>

\* The two addresses _processPayout pushes onto payoutAddresses.
PayoutRecipients(vetAddress, ownerAddress) == <<vetAddress, ownerAddress>>

\* What a claim evaluation works on: the claims, the balances of the two
\* tokens and the credential registry; ok is FALSE where the call reverts.
World(cls, gb, pb, creds) ==
    [ok |-> TRUE, claims |-> cls, guardBalance |-> gb, pawBalance |-> pb,
     credentials |-> creds]

\* A failure that is not passed on: what the call did so far is kept.
RevertedInPart(w) == w

Reverted(w) == [w EXCEPT !.ok = FALSE]

\* The number of reward transfers of _processPayout: one per panel entry
\* whose juror has claimVoteApproved set.
RewardCount(panel, votedApprove) ==
    Cardinality({i \in 1..Len(panel) : panel[i] \in votedApprove})

_processPayout(c, w, votedApprove) ==
    LET claim == w.claims[c]
        totalPayout == claim.requestedPayoutAmount
        vetAddress == claim.treatingVet
        ownerAddress == claim.owner
        payoutToVet == PayoutToVet(totalPayout)
        payoutToOwner == totalPayout - payoutToVet
        panel == claim.juryMembers
        rewards == RewardCount(panel, votedApprove) * PAW_REWARD_PER_JUROR
    IN IF \/ claim.status # "Approved"
          \/ w.guardBalance[PoolAddr] < totalPayout
          \/ vetAddress = ZeroAddress
          \/ ownerAddress = ZeroAddress
          \/ w.credentials[vetAddress].vetAddress = ZeroAddress
          \/ w.pawBalance[PoolAddr] < rewards
       THEN Reverted(w)
       ELSE [ok |-> TRUE,
             claims |-> [w.claims EXCEPT
                            ![c].payoutAddresses = @ \o PayoutRecipients(vetAddress, ownerAddress),
                            ![c].payoutAmounts = @ \o <<payoutToVet, payoutToOwner>>],
             guardBalance |-> Transfer(Transfer(w.guardBalance, PoolAddr, vetAddress,
                                                payoutToVet),
                                       PoolAddr, ownerAddress, payoutToOwner),
             pawBalance |-> [a \in Holders |->
                                IF a = PoolAddr THEN w.pawBalance[a] - rewards
                                ELSE IF a \in votedApprove
                                THEN w.pawBalance[a]
                                     + Occurrences(panel, a) * PAW_REWARD_PER_JUROR
                                ELSE w.pawBalance[a]],
             credentials |-> incrementClaimsApproved(w.credentials, vetAddress)]

\* An evaluation that refunds a claim the votes do not approve.
_evaluateClaimRefunding(c, w, votedApprove) ==
    LET claim == w.claims[c] IN
    IF claim.status # "InReview" THEN Reverted(w)
    ELSE IF /\ claim.approveVotes + claim.rejectVotes < REQUIRED_JURY_VOTES
            /\ now <= claim.submissionTimestamp + juryVotingPeriod
    THEN w
    ELSE IF MajorityApproved(claim.approveVotes, claim.rejectVotes)
    THEN _processPayout(c, [w EXCEPT !.claims[c].status = "Approved"], votedApprove)
    ELSE [w EXCEPT !.claims[c].status = "Refunded"]

_evaluateClaim(c, w, votedApprove) ==
    LET claim == w.claims[c] IN
    IF claim.status # "InReview" THEN Reverted(w)
    ELSE IF /\ claim.approveVotes + claim.rejectVotes < REQUIRED_JURY_VOTES
            /\ now <= claim.submissionTimestamp + juryVotingPeriod
    THEN w
    ELSE IF MajorityApproved(claim.approveVotes, claim.rejectVotes)
    THEN _processPayout(c, [w EXCEPT !.claims[c].status = "Approved"], votedApprove)
    ELSE [w EXCEPT !.claims[c].status = "Rejected"]

\* A risk share of a tenth, rounded down like the other two shares.
RiskShareTenth(amount, immediate, stable) == (amount * 10) \div 100

\* The share of the risk reserve in payPremium: what the other two leave.
RiskShare(amount, immediate, stable) == amount - immediate - stable

payPremium(sender, petId, amount) ==
    LET immediate == (amount * 30) \div 100
        stable == (amount * 60) \div 100
        risk == RiskShare(amount, immediate, stable)
    IN /\ getPetOwner(petId) = sender
       /\ getPetOwner(petId) # ZeroAddress
       /\ amount >= getPetPremium(petId)
       /\ guardBalance[sender] >= amount
       /\ guardBalance' = Transfer(guardBalance, sender, PoolAddr, amount)
       /\ immediatePayoutPool' = immediatePayoutPool + immediate
       /\ stableYieldPool' = stableYieldPool + stable
       /\ riskReservePool' = riskReservePool + risk
       /\ UNCHANGED <<now, claimVars, stakeVars, pawBalance, juryVars, credVars, petVars>>

submitClaim(sender, petId, treatingVet, diagnosis, requestedPayoutAmount) ==
    LET newClaimId == claimIdCounter + 1 IN
    /\ getPetOwner(petId) = sender
    /\ isAuthorizedVet(petId, treatingVet)
    /\ isValidCredential(treatingVet)
    /\ Len(diagnosis) > 0
    /\ requestedPayoutAmount > 0
    /\ guardBalance[sender] >= claimSubmissionFee
    /\ newClaimId \in ClaimIds
    /\ guardBalance' = Transfer(guardBalance, sender, PoolAddr, claimSubmissionFee)
    /\ claimIdCounter' = newClaimId
    /\ claims' = [claims EXCEPT ![newClaimId] =
                     [@ EXCEPT !.petId = petId,
                               !.owner = sender,
                               !.treatingVet = treatingVet,
                               !.vetDiagnosisIPFSHash = diagnosis,
                               !.submissionTimestamp = now,
                               !.requestedPayoutAmount = requestedPayoutAmount,
                               !.status = "Pending",
                               !.approveVotes = 0,
                               !.rejectVotes = 0]]
    /\ UNCHANGED <<now, claimHasVoted, claimVoteApproved, stakeVars, fundVars,
                   pawBalance, juryVars, credVars, petVars>>

selectJury(sender, c) ==
    /\ sender = Admin
    /\ claims[c].status = "Pending"
    /\ Len(stakers) >= REQUIRED_JURY_VOTES
    /\ Len(EligibleJurors) >= REQUIRED_JURY_VOTES
    /\ claims' = [claims EXCEPT
                     ![c].juryMembers = @ \o SubSeq(EligibleJurors, 1, REQUIRED_JURY_VOTES),
                     ![c].status = "InReview"]
    /\ UNCHANGED <<now, claimIdCounter, claimHasVoted, claimVoteApproved, stakeVars,
                   fundVars, tokenVars, juryVars, credVars, petVars>>

\* Vote requirements that let a juror vote again.
voteRequiresOnPanel(sender, c) ==
    /\ claims[c].status = "InReview"
    /\ now <= claims[c].submissionTimestamp + juryVotingPeriod
    /\ sender \in Range(claims[c].juryMembers)

\* The require statements of voteOnClaim.
voteRequires(sender, c) ==
    /\ claims[c].status = "InReview"
    /\ now <= claims[c].submissionTimestamp + juryVotingPeriod
    /\ sender \in Range(claims[c].juryMembers)
    /\ sender \notin claimHasVoted[c]

voteOnClaim(sender, c, approved) ==
    LET claim == claims[c]
        votedApprove == IF approved THEN claimVoteApproved[c] \cup {sender}
                                    ELSE claimVoteApproved[c] \ {sender}
        counted == [claims EXCEPT
                       ![c].approveVotes = IF approved THEN @ + 1 ELSE @,
                       ![c].rejectVotes = IF approved THEN @ ELSE @ + 1]
        w0 == World(counted, guardBalance, pawBalance, credentials)
        w == IF counted[c].approveVotes + counted[c].rejectVotes = REQUIRED_JURY_VOTES
             THEN _evaluateClaim(c, w0, votedApprove)
             ELSE w0
    IN /\ voteRequires(sender, c)
       /\ w.ok
       /\ claimHasVoted' = [claimHasVoted EXCEPT ![c] = @ \cup {sender}]
       /\ claimVoteApproved' = [claimVoteApproved EXCEPT ![c] = votedApprove]
       /\ claims' = w.claims
       /\ guardBalance' = w.guardBalance
       /\ pawBalance' = w.pawBalance
       /\ credentials' = w.credentials
       /\ UNCHANGED credConfig
       /\ UNCHANGED <<now, claimIdCounter, stakeVars, fundVars, juryVars, petVars>>

\* Finalize requirements that are met on the last day of the window already.
finalizeRequiresAtDeadline(c) ==
    /\ claims[c].status = "InReview"
    /\ now >= claims[c].submissionTimestamp + juryVotingPeriod

\* The require statements of finalizeClaimVoting.
finalizeRequires(c) ==
    /\ claims[c].status = "InReview"
    /\ now > claims[c].submissionTimestamp + juryVotingPeriod

\* finalizeClaimVoting: the evaluation, the votes recorded after it, and
\* whether the call goes through (no require of the three fails).
finalizeEvaluated(c) ==
    _evaluateClaim(c, World(claims, guardBalance, pawBalance, credentials),
                   claimVoteApproved[c])

finalizeRecorded(c, w) ==
    recordVotes(Registry(juryMembers, hasVotedOnClaim, reputationHistory),
                claims[c].juryMembers, 1, c, w.claims[c].status = "Approved",
                claimHasVoted[c], claimVoteApproved[c])

finalizeAccepted(c) ==
    LET w == finalizeEvaluated(c) IN
    /\ finalizeRequires(c)
    /\ w.ok
    /\ finalizeRecorded(c, w).ok

finalizeClaimVoting(sender, c) ==
    LET w == finalizeEvaluated(c)
        reg == finalizeRecorded(c, w)
    IN /\ finalizeAccepted(c)
       /\ claims' = w.claims
       /\ guardBalance' = w.guardBalance
       /\ pawBalance' = w.pawBalance
       /\ credentials' = w.credentials
       /\ UNCHANGED credConfig
       /\ juryMembers' = reg.juryMembers
       /\ hasVotedOnClaim' = reg.hasVotedOnClaim
       /\ reputationHistory' = reg.reputationHistory
       /\ UNCHANGED <<now, claimIdCounter, claimHasVoted, claimVoteApproved, stakeVars,
                      fundVars, sybilChecks, usedIdentityHashes, juryConfig, petVars>>

\* updateStake as stakePaw and unstakePaw call it.
StakePushed(member, newAmount) ==
    [juryMembers EXCEPT ![member].stakingAmount = newAmount]

stakePaw(sender, amount) ==
    /\ amount > 0
    /\ pawBalance[sender] >= amount
    /\ juryMembers[sender].memberAddress # ZeroAddress
    /\ pawBalance' = Transfer(pawBalance, sender, PoolAddr, amount)
    /\ stakers' = IF pawStakes[sender] = 0 THEN Append(stakers, sender) ELSE stakers
    /\ pawStakes' = [pawStakes EXCEPT ![sender] = @ + amount]
    /\ juryMembers' = StakePushed(sender, pawStakes[sender] + amount)
    /\ UNCHANGED <<now, claimVars, fundVars, guardBalance, hasVotedOnClaim, sybilChecks,
                   usedIdentityHashes, reputationHistory, juryConfig, credVars, petVars>>

unstakePaw(sender, amount) ==
    /\ amount > 0
    /\ pawStakes[sender] >= amount
    /\ juryMembers[sender].memberAddress # ZeroAddress
    /\ pawBalance[PoolAddr] >= amount
    /\ pawStakes' = [pawStakes EXCEPT ![sender] = @ - amount]
    /\ stakers' = IF pawStakes[sender] - amount = 0 THEN RemoveStaker(stakers, sender)
                                                    ELSE stakers
    /\ juryMembers' = StakePushed(sender, pawStakes[sender] - amount)
    /\ pawBalance' = Transfer(pawBalance, PoolAddr, sender, amount)
    /\ UNCHANGED <<now, claimVars, fundVars, guardBalance, hasVotedOnClaim, sybilChecks,
                   usedIdentityHashes, reputationHistory, juryConfig, credVars, petVars>>

(* ----------------------- JuryIdentity operations ------------------------ *)

\* isVerifier[msg.sender] || msg.sender == owner()
IsAuthorizedVerifier(sender) == sender \in isVerifier \/ sender = Admin

enableRegistrationForAddress(sender, a) ==
    /\ sender = Admin
    /\ a # ZeroAddress
    /\ registrationEnabled' = registrationEnabled \cup {a}
    /\ UNCHANGED <<now, claimVars, stakeVars, fundVars, tokenVars, juryMembers,
                   hasVotedOnClaim, sybilChecks, usedIdentityHashes, reputationHistory,
                   didToAddress, isVerifier, openRegistration, credVars, petVars>>

disableRegistrationForAddress(sender, a) ==
    /\ sender = Admin
    /\ registrationEnabled' = registrationEnabled \ {a}
    /\ UNCHANGED <<now, claimVars, stakeVars, fundVars, tokenVars, juryMembers,
                   hasVotedOnClaim, sybilChecks, usedIdentityHashes, reputationHistory,
                   didToAddress, isVerifier, openRegistration, credVars, petVars>>

toggleOpenRegistration(sender, enabled) ==
    /\ sender = Admin
    /\ openRegistration' = enabled
    /\ UNCHANGED <<now, claimVars, stakeVars, fundVars, tokenVars, juryMembers,
                   hasVotedOnClaim, sybilChecks, usedIdentityHashes, reputationHistory,
                   didToAddress, isVerifier, registrationEnabled, credVars, petVars>>

authorizeVerifier(sender, verifier) ==
    /\ sender = Admin
    /\ verifier # ZeroAddress
    /\ isVerifier' = isVerifier \cup {verifier}
    /\ UNCHANGED <<now, claimVars, stakeVars, fundVars, tokenVars, juryMembers,
                   hasVotedOnClaim, sybilChecks, usedIdentityHashes, reputationHistory,
                   didToAddress, registrationEnabled, openRegistration, credVars, petVars>>

revokeVerifier(sender, verifier) ==
    /\ sender = Admin
    /\ isVerifier' = isVerifier \ {verifier}
    /\ UNCHANGED <<now, claimVars, stakeVars, fundVars, tokenVars, juryMembers,
                   hasVotedOnClaim, sybilChecks, usedIdentityHashes, reputationHistory,
                   didToAddress, registrationEnabled, openRegistration, credVars, petVars>>

\* Registration requirements that leave out the test of the DID's binding.
registerRequiresUnbound(sender, did) ==
    /\ openRegistration \/ sender \in registrationEnabled
    /\ juryMembers[sender].memberAddress = ZeroAddress
    /\ did \in Dids
    /\ Len(did) > 0

\* The require statements of registerJuryMember.
registerRequires(sender, did) ==
    /\ openRegistration \/ sender \in registrationEnabled
    /\ juryMembers[sender].memberAddress = ZeroAddress
    /\ did \in Dids
    /\ didToAddress[did] = ZeroAddress
    /\ Len(did) > 0

registerJuryMember(sender, did, identityProofIPFSHash) ==
    /\ registerRequires(sender, did)
    /\ juryMembers' = [juryMembers EXCEPT ![sender] =
           [did |-> did, memberAddress |-> sender,
            identityProofIPFSHash |-> identityProofIPFSHash,
            status |-> "Unverified", registrationDate |-> now, reputationScore |-> 500,
            totalVotes |-> 0, consistentVotes |-> 0, lastVoteTimestamp |-> 0,
            isActive |-> TRUE, stakingAmount |-> 0, participatedClaims |-> <<>>]]
    /\ didToAddress' = [didToAddress EXCEPT ![did] = sender]
    /\ UNCHANGED <<now, claimVars, stakeVars, fundVars, tokenVars, hasVotedOnClaim,
                   sybilChecks, usedIdentityHashes, reputationHistory, isVerifier,
                   registrationEnabled, openRegistration, credVars, petVars>>

\* A status update that verifies whoever passes a check.
StatusAfterCheckPassed(status, passed) == IF passed THEN "Verified" ELSE status

\* The status performSybilCheck leaves.
StatusAfterCheck(status, passed) ==
    IF passed /\ status = "Unverified" THEN "Verified" ELSE status

performSybilCheck(sender, member, identityHash, passed) ==
    /\ IsAuthorizedVerifier(sender)
    /\ juryMembers[member].memberAddress # ZeroAddress
    /\ passed => (identityHash \notin usedIdentityHashes \/ Len(sybilChecks[member]) > 0)
    /\ usedIdentityHashes' = IF passed THEN usedIdentityHashes \cup {identityHash}
                                       ELSE usedIdentityHashes
    /\ sybilChecks' = [sybilChecks EXCEPT ![member] =
           Append(@, [identityHash |-> identityHash, timestamp |-> now,
                      verifier |-> sender, passed |-> passed])]
    /\ juryMembers' = [juryMembers EXCEPT ![member].status = StatusAfterCheck(@, passed)]
    /\ UNCHANGED <<now, claimVars, stakeVars, fundVars, tokenVars, hasVotedOnClaim,
                   reputationHistory, juryConfig, credVars, petVars>>

suspendMember(sender, member) ==
    /\ IsAuthorizedVerifier(sender)
    /\ juryMembers[member].memberAddress # ZeroAddress
    /\ juryMembers' = [juryMembers EXCEPT ![member].status = "Suspended"]
    /\ UNCHANGED <<now, claimVars, stakeVars, fundVars, tokenVars, hasVotedOnClaim,
                   sybilChecks, usedIdentityHashes, reputationHistory, juryConfig,
                   credVars, petVars>>

banMember(sender, member) ==
    /\ IsAuthorizedVerifier(sender)
    /\ juryMembers[member].memberAddress # ZeroAddress
    /\ juryMembers' = [juryMembers EXCEPT ![member].status = "Banned",
                                          ![member].isActive = FALSE]
    /\ UNCHANGED <<now, claimVars, stakeVars, fundVars, tokenVars, hasVotedOnClaim,
                   sybilChecks, usedIdentityHashes, reputationHistory, juryConfig,
                   credVars, petVars>>

reinstateMember(sender, member) ==
    /\ IsAuthorizedVerifier(sender)
    /\ juryMembers[member].memberAddress # ZeroAddress
    /\ juryMembers[member].status = "Suspended"
    /\ juryMembers' = [juryMembers EXCEPT ![member].status = "Verified",
                                          ![member].isActive = TRUE]
    /\ UNCHANGED <<now, claimVars, stakeVars, fundVars, tokenVars, hasVotedOnClaim,
                   sybilChecks, usedIdentityHashes, reputationHistory, juryConfig,
                   credVars, petVars>>

\* updateStake called from outside: it checks only that the member is
\* registered.
updateStake(sender, member, newAmount) ==
    /\ juryMembers[member].memberAddress # ZeroAddress
    /\ juryMembers' = StakePushed(member, newAmount)
    /\ UNCHANGED <<now, claimVars, stakeVars, fundVars, tokenVars, hasVotedOnClaim,
                   sybilChecks, usedIdentityHashes, reputationHistory, juryConfig,
                   credVars, petVars>>

\* recordVote called from outside: it checks only that the member is
\* registered and has no vote recorded on the claim.
recordVote(sender, member, claimId, votedWithMajority) ==
    LET reg == recordVoteOn(Registry(juryMembers, hasVotedOnClaim, reputationHistory),
                            sender, member, claimId, votedWithMajority)
    IN /\ reg.ok
       /\ juryMembers' = reg.juryMembers
       /\ hasVotedOnClaim' = reg.hasVotedOnClaim
       /\ reputationHistory' = reg.reputationHistory
       /\ UNCHANGED <<now, claimVars, stakeVars, fundVars, tokenVars, sybilChecks,
                      usedIdentityHashes, juryConfig, credVars, petVars>>

\* updateReputation of the jury registry, with _updateReputation.
updateReputation(sender, member, scoreChange, reason) ==
    /\ IsAuthorizedVerifier(sender)
    /\ juryMembers[member].memberAddress # ZeroAddress
    /\ juryMembers' = [juryMembers EXCEPT
                          ![member].reputationScore = ClampReputation(@, scoreChange)]
    /\ reputationHistory' = [reputationHistory EXCEPT
                                ![member] = Append(@, [timestamp |-> now,
                                                       scoreChange |-> scoreChange,
                                                       reason |-> reason,
                                                       updatedBy |-> sender])]
    /\ UNCHANGED <<now, claimVars, stakeVars, fundVars, tokenVars, hasVotedOnClaim,
                   sybilChecks, usedIdentityHashes, juryConfig, credVars, petVars>>

(* --------------------------------- time -------------------------------- *)

\* block.timestamp grows between transactions.
AdvanceTime(d) ==
    /\ d > 0
    /\ now + d <= MaxTime
    /\ now' = now + d
    /\ UNCHANGED <<claimVars, stakeVars, fundVars, tokenVars, juryVars, credVars, petVars>>

\* block.timestamp grows, up to the day after an inactivity period that
\* began at StartTime.
AdvanceTimeLong(d) ==
    /\ d > 0
    /\ now + d <= StartTime + inactivityPenaltyPeriod + 1
    /\ now' = now + d
    /\ UNCHANGED <<claimVars, stakeVars, fundVars, tokenVars, juryVars, credVars, petVars>>

(* ------------------ the voting specification (Spec) -------------------- *)

\* Requested payout amounts, premium amounts and the diagnosis reference.
ClaimAmounts == {7, 100, 20 * Unit}
PremiumAmounts == {basePremium + 1}
Diagnosis == "QmVetDiagnosis"

\* The jurors of claim c that voted, in panel order.
VotedInOrder(c) == SelectSeq(claims[c].juryMembers, LAMBDA a : a \in claimHasVoted[c])

\* How often the vote value changes along VotedInOrder(c).
Flips(c) ==
    LET v == VotedInOrder(c) IN
    Cardinality({i \in 1..(Len(v) - 1) :
                    (v[i] \in claimVoteApproved[c]) # (v[i + 1] \in claimVoteApproved[c])})

\* Jurors are interchangeable in voteOnClaim, so votes are cast in panel
\* order, and the vote value changes at most MaxFlips times.
RECURSIVE FirstUnvoted(_, _, _)
FirstUnvoted(panel, voted, i) ==
    IF i > Len(panel) THEN {}
    ELSE IF panel[i] \notin voted THEN {panel[i]}
    ELSE FirstUnvoted(panel, voted, i + 1)

NextVoter(c) == FirstUnvoted(claims[c].juryMembers, claimHasVoted[c], 1)

\* Callers whose vote must be turned down: the first juror of the panel once
\* it has voted, a staker outside the model's first panel, the administrator.
VoteProbes(c) ==
    LET panel == claims[c].juryMembers IN
    {a \in {NumParticipants, Admin} \cup (IF Len(panel) > 0 THEN {panel[1]} ELSE {}) :
        a \in claimHasVoted[c] \/ a \notin Range(panel)}

MayVote(c, approved) ==
    LET v == VotedInOrder(c) IN
    IF Len(v) = 0 THEN TRUE
    ELSE \/ (v[Len(v)] \in claimVoteApproved[c]) = approved
         \/ Flips(c) < MaxFlips

VoteCallers(c) == NextVoter(c) \cup VoteProbes(c)

VoteInOrder(c, approved) ==
    /\ MayVote(c, approved)
    /\ \E a \in VoteCallers(c) : voteOnClaim(a, c, approved)

Next ==
    \/ AdvanceTime(1)
    \/ \E amount \in PremiumAmounts : payPremium(PetOwner, 1, amount)
    \/ \E amount \in ClaimAmounts : submitClaim(PetOwner, 1, Vet, Diagnosis, amount)
    \/ \E c \in ClaimIds : selectJury(Admin, c)
    \/ \E c \in ClaimIds, approved \in BOOLEAN : VoteInOrder(c, approved)
    \/ \E c \in ClaimIds : finalizeClaimVoting(PetOwner, c)

Spec == Init /\ [][Next]_vars

(* --------------- the panel specification (SpecPanel) ------------------- *)

\* An onboarded juror and a newcomer stake and unstake; the newcomer
\* registers and is sybil-checked; the juror is suspended, banned, reinstated.
Juror == Head(SeqOfInterval(1, NumOnboarded))
Newcomer == NumParticipants
PanelActors == {Juror, Newcomer}

NextPanel ==
    \/ AdvanceTime(juryVotingPeriod + 1)
    \/ submitClaim(PetOwner, 1, Vet, Diagnosis, 100)
    \/ \E c \in ClaimIds : selectJury(Admin, c)
    \/ \E a \in PanelActors : stakePaw(a, minimumStakeForJury)
    \/ \E a \in PanelActors : unstakePaw(a, minimumStakeForJury)
    \/ enableRegistrationForAddress(Admin, Newcomer)
    \/ registerJuryMember(Newcomer, DidOf(Newcomer), "QmJurorIdentity")
    \/ \E passed \in BOOLEAN :
          /\ Len(sybilChecks[Newcomer]) < MaxChecks
          /\ performSybilCheck(Admin, Newcomer, Newcomer, passed)
    \/ suspendMember(Admin, Juror)
    \/ banMember(Admin, Juror)
    \/ reinstateMember(Admin, Juror)

SpecPanel == Init /\ [][NextPanel]_vars

(* ---------------- the fund specification (SpecFund) ------------------- *)

\* Premium amounts around the premiums of 0, 1 and 2 medical records, and
\* the callers of payPremium: the pet owner and somebody else.
FundAmounts ==
    {basePremium - 1, basePremium, basePremium + 3, basePremium + 10 * Unit,
     basePremium + 10 * Unit + 9, basePremium + 20 * Unit + 1}
FundActors == {PetOwner, Admin}

PoolsTotal == immediatePayoutPool + stableYieldPool + riskReservePool

NextFund ==
    \/ \E to \in FundActors :
          /\ guardBalance[to] < MaxDeposits * basePremium
          /\ mint(Admin, to, basePremium)
    \/ \E sender \in FundActors, amount \in FundAmounts :
          /\ PoolsTotal < MaxDeposits * basePremium
          /\ payPremium(sender, 1, amount)
    \/ /\ getMedicalHistoryLength(1) < MaxRecords
       /\ addMedicalRecord(Vet, 1, "QmRecord")
    \/ submitClaim(PetOwner, 1, Vet, Diagnosis, 100)

SpecFund == Init /\ [][NextFund]_vars

(* ------------- the credential specification (SpecCred) ----------------- *)

\* The callers of the credential registry (the issuer and somebody else),
\* the two holders, and the expiration dates passed to issue and renew.
CredActors == {Admin, PetOwner}
CredHolders == {Vet, Vet2}
ExpirationDates == {now, now + 1, StartTime + 366}

RecordsIssued ==
    credentials[Vet].totalRecordsIssued + credentials[Vet2].totalRecordsIssued

NextCred ==
    \/ AdvanceTime(1)
    \/ \E sender \in CredActors, v \in CredHolders, did \in VetDids,
          licenseNumber \in LicenseNumbers, expirationDate \in ExpirationDates :
          issueCredential(sender, v, did, licenseNumber, "QmVetCredential", expirationDate)
    \/ \E sender \in CredActors, v \in CredHolders : revokeCredential(sender, v)
    \/ \E sender \in CredActors, v \in CredHolders : suspendCredential(sender, v)
    \/ \E sender \in CredActors, v \in CredHolders : reactivateCredential(sender, v)
    \/ \E sender \in CredActors, v \in CredHolders, expirationDate \in ExpirationDates :
          renewCredential(sender, v, expirationDate)
    \/ \E v \in CredHolders : authorizeVet(PetOwner, 1, v)
    \/ \E v \in CredHolders :
          /\ RecordsIssued < MaxRecords
          /\ incrementRecordsIssuedCall(PetOwner, v)
    \/ \E v \in CredHolders : submitClaim(PetOwner, 1, v, Diagnosis, 100)

SpecCred == Init /\ [][NextCred]_vars

(* ------- the credential reputation specification (SpecVetRep) ---------- *)

\* The issuer sets the reputation of the credentialed vet to a score of
\* VetScores, and anybody calls the two counters' functions, each at most
\* MaxBumps times.
VetScores == {0, 998, 999, 1000, 1001}

NextVetRep ==
    \/ \E sender \in CredActors, v \in CredHolders, newScore \in VetScores :
          updateCredentialReputation(sender, v, newScore)
    \/ \E v \in CredHolders :
          /\ credentials[v].totalRecordsIssued < MaxBumps
          /\ incrementRecordsIssuedCall(PetOwner, v)
    \/ \E v \in CredHolders :
          /\ credentials[v].totalClaimsApproved < MaxBumps
          /\ incrementClaimsApprovedCall(PetOwner, v)

SpecVetRep == Init /\ [][NextVetRep]_vars

(* ------------- the standing specification (SpecStanding) --------------- *)

\* What decides the eligibility of the onboarded juror changes: its status,
\* its stake, its reputation (by updateReputation and recordVote, MaxVotes
\* times at most) and the time since its last vote.  The newcomer stays
\* unregistered, so every call naming it is turned down.
StandingDeltas == {-200, -201}
StandingStakes == {minimumStakeForJury - 1, minimumStakeForJury}
VoteIds == 1..MaxVotes
StandingSteps ==
    {inactivityPenaltyPeriod - 1, inactivityPenaltyPeriod, inactivityPenaltyPeriod + 1}

NextStanding ==
    \/ \E d \in StandingSteps : AdvanceTimeLong(d)
    \/ \E sender \in {Admin, PetOwner}, member \in PanelActors, change \in StandingDeltas :
          /\ Len(reputationHistory[member]) < MaxVotes
          /\ updateReputation(sender, member, change, "Standing review")
    \/ \E member \in PanelActors, claimId \in VoteIds, votedWithMajority \in BOOLEAN :
          /\ Len(reputationHistory[member]) < MaxVotes
          /\ recordVote(PetOwner, member, claimId, votedWithMajority)
    \/ \E member \in PanelActors, newAmount \in StandingStakes :
          updateStake(PetOwner, member, newAmount)
    \/ \E member \in PanelActors : suspendMember(Admin, member)
    \/ \E member \in PanelActors : banMember(Admin, member)
    \/ \E member \in PanelActors : reinstateMember(Admin, member)

SpecStanding == Init /\ [][NextStanding]_vars

(* ------------- the registry specification (SpecRegistry) --------------- *)

\* The administrator opens and closes registration and authorises a second
\* verifier; the onboarded juror and the newcomer register, are checked
\* (MaxChecks times each at most) against their own and each other's
\* identity hash, and are suspended, banned and reinstated.
RegistryCallers == {Admin, PetOwner}
RegistryDids == {"", DidOf(Juror), DidOf(Newcomer)}
IdentityHashes == PanelActors

NextRegistry ==
    \/ \E sender \in RegistryCallers : enableRegistrationForAddress(sender, Newcomer)
    \/ \E sender \in RegistryCallers : disableRegistrationForAddress(sender, Newcomer)
    \/ \E sender \in RegistryCallers, enabled \in BOOLEAN :
          toggleOpenRegistration(sender, enabled)
    \/ \E sender \in RegistryCallers : authorizeVerifier(sender, PetOwner)
    \/ \E sender \in RegistryCallers : revokeVerifier(sender, PetOwner)
    \/ \E sender \in PanelActors, did \in RegistryDids :
          registerJuryMember(sender, did, "QmJurorIdentity")
    \/ \E sender \in RegistryCallers, member \in PanelActors,
          identityHash \in IdentityHashes, passed \in BOOLEAN :
          /\ Len(sybilChecks[member]) < MaxChecks
          /\ performSybilCheck(sender, member, identityHash, passed)
    \/ \E sender \in RegistryCallers, member \in PanelActors : suspendMember(sender, member)
    \/ \E sender \in RegistryCallers, member \in PanelActors : banMember(sender, member)
    \/ \E sender \in RegistryCallers, member \in PanelActors :
          reinstateMember(sender, member)

SpecRegistry == Init /\ [][NextRegistry]_vars

(* ------------- the reputation specification (SpecRep) ------------------ *)

\* A verifier changes the reputation of a juror by a delta of RepDeltas and
\* anybody records votes of the juror, MaxDeltas changes in all.
RepDeltas == {-1000, -499, -2, 5, 498, 1000}

NextRep ==
    \/ \E sender \in RegistryCallers, member \in PanelActors, change \in RepDeltas :
          /\ Len(reputationHistory[member]) < MaxDeltas
          /\ updateReputation(sender, member, change, "Manual adjustment")
    \/ \E member \in PanelActors, claimId \in VoteIds, votedWithMajority \in BOOLEAN :
          /\ Len(reputationHistory[member]) < MaxDeltas
          /\ recordVote(PetOwner, member, claimId, votedWithMajority)

SpecRep == Init /\ [][NextRep]_vars

(* --------------- the staking specification (SpecStake) ----------------- *)

\* The onboarded juror and the newcomer (once registered and checked) stake
\* and unstake half and all of the minimum stake, and panels are selected.
StakeAmounts == {minimumStakeForJury \div 2, minimumStakeForJury}

NextStake ==
    \/ enableRegistrationForAddress(Admin, Newcomer)
    \/ registerJuryMember(Newcomer, DidOf(Newcomer), "QmJurorIdentity")
    \/ /\ Len(sybilChecks[Newcomer]) < MaxChecks
       /\ performSybilCheck(Admin, Newcomer, Newcomer, TRUE)
    \/ \E a \in PanelActors, amount \in StakeAmounts : stakePaw(a, amount)
    \/ \E a \in PanelActors, amount \in StakeAmounts : unstakePaw(a, amount)
    \/ submitClaim(PetOwner, 1, Vet, Diagnosis, 100)
    \/ \E c \in ClaimIds : selectJury(Admin, c)

SpecStake == Init /\ [][NextStake]_vars

(* ----------------- the pet registry specification (SpecPet) ------------ *)

\* The administrator registers pets for the pet owner and the vet; the pet
\* owner, the vet and the administrator (as an operator, where approved)
\* transfer 0, 1 and 2 tokens of a pet among themselves; the vet adds
\* medical records to pet 1, MaxRecords at most.
PetActors == {PetOwner, Vet, Admin}
PetHolders == {PetOwner, Vet}
TokenValues == {0, 1, 2}

NextPet ==
    \/ \E sender \in {Admin, PetOwner}, owner \in PetHolders :
          registerPet(sender, owner, "QmPetInfo")
    \/ \E sender \in PetHolders, approved \in BOOLEAN :
          setApprovalForAll(sender, Admin, approved)
    \/ \E sender \in PetActors, from \in PetHolders, to \in PetHolders \cup {ZeroAddress},
          id \in PetIds, value \in TokenValues :
          safeTransferFrom(sender, from, to, id, value)
    \/ /\ getMedicalHistoryLength(1) < MaxRecords
       /\ addMedicalRecord(Vet, 1, "QmRecord")

SpecPet == Init /\ [][NextPet]_vars

(* ------------------------------ properties ----------------------------- *)

Terminal(status) == status \in {"Approved", "Rejected"}

\* The claims submitClaim has produced.
Submitted == 1..claimIdCounter

VotingOpen(c) == now <= claims[c].submissionTimestamp + juryVotingPeriod

RECURSIVE SumSeq(_)
SumSeq(s) == IF Len(s) = 0 THEN 0 ELSE Head(s) + SumSeq(Tail(s))

\* C1: from its submission on, the status of a claim stays or moves
\* Pending -> InReview -> {Approved, Rejected}; it never leaves Approved or
\* Rejected, and no claim is ever Refunded.
StatusStep(c) ==
    LET s == claims[c].status
        t == claims'[c].status
    IN \/ t = s
       \/ s = "Pending" /\ t = "InReview"
       \/ s = "InReview" /\ Terminal(t)

StatusForward ==
    /\ [](\A c \in ClaimIds : claims[c].status # "Refunded")
    /\ [][\A c \in Submitted : StatusStep(c)]_vars

StatusForwardWitness ==
    \E c \in Submitted : claims[c].status = "Approved" /\ claims[c].approveVotes < REQUIRED_JURY_VOTES

\* C2: approveVotes + rejectVotes is at most the panel size and is the
\* number of jurors of the claim whose has-voted flag is set; each of them
\* counts once, in the counter of its recorded vote.
VoteCountsConsistent ==
    \A c \in ClaimIds :
        LET jurors == Range(claims[c].juryMembers) IN
        /\ claims[c].approveVotes + claims[c].rejectVotes <= 21
        /\ claimHasVoted[c] \subseteq jurors
        /\ claimVoteApproved[c] \subseteq claimHasVoted[c]
        /\ claims[c].approveVotes = Cardinality(claimVoteApproved[c])
        /\ claims[c].rejectVotes = Cardinality(claimHasVoted[c] \ claimVoteApproved[c])

VoteCountsWitness ==
    \E c \in Submitted :
        /\ claims[c].approveVotes + claims[c].rejectVotes = 21
        /\ claims[c].approveVotes > 0
        /\ claims[c].rejectVotes > 0

\* C3: an evaluated claim is Approved iff approve*3 > (approve+reject)*2 and
\* Rejected otherwise (the counters are frozen once the claim is evaluated);
\* 14 to 7 is Rejected, 15 to 6 is Approved.
MajorityRule ==
    \A c \in ClaimIds :
        LET a == claims[c].approveVotes
            r == claims[c].rejectVotes
        IN /\ claims[c].status = "Approved" => a * 3 > (a + r) * 2
           /\ claims[c].status = "Rejected" => ~(a * 3 > (a + r) * 2)
           /\ Terminal(claims[c].status) /\ a = 14 /\ r = 7 => claims[c].status = "Rejected"
           /\ Terminal(claims[c].status) /\ a = 15 /\ r = 6 => claims[c].status = "Approved"

MajorityRuleWitness ==
    \E c \in Submitted :
        claims[c].status = "Rejected" /\ claims[c].approveVotes = 14 /\ claims[c].rejectVotes = 7

\* C4: a claim for 100 on which a panel of 21 cast 15 approve and 6 reject
\* votes is, once its voting window is over, Approved, with 80 paid to the
\* attester, 20 to the owner, and the reputation of every approving panelist
\* raised by 5.
ScenarioOutcome ==
    \A c \in Submitted :
        (/\ claims[c].requestedPayoutAmount = 100
         /\ Len(claims[c].juryMembers) = 21
         /\ claims[c].approveVotes = 15
         /\ claims[c].rejectVotes = 6
         /\ ~VotingOpen(c))
        => /\ claims[c].status = "Approved"
           /\ claims[c].payoutAddresses = <<claims[c].treatingVet, claims[c].owner>>
           /\ claims[c].payoutAmounts = <<80, 20>>
           /\ \A j \in claimVoteApproved[c] :
                 /\ juryMembers[j].reputationScore = 500 + 5
                 /\ SumSeq([i \in 1..Len(reputationHistory[j]) |->
                               reputationHistory[j][i].scoreChange]) = 5

\* C5: once a claim is Approved or Rejected, the registry has recorded, for
\* every panelist that voted, exactly one vote on the claim, with the delta
\* of votedWithMajority = (vote = outcome); and none for the others.
ExpectedChange(c, j) ==
    IF (j \in claimVoteApproved[c]) = (claims[c].status = "Approved") THEN 5 ELSE -2

VotesFedBack ==
    \A c \in Submitted :
        Terminal(claims[c].status) =>
            \A j \in Range(claims[c].juryMembers) :
                /\ (c \in hasVotedOnClaim[j]) = (j \in claimHasVoted[c])
                /\ Occurrences(juryMembers[j].participatedClaims, c)
                      = (IF j \in claimHasVoted[c] THEN 1 ELSE 0)
                /\ MaxClaims = 1 =>
                      [i \in 1..Len(reputationHistory[j]) |->
                          reputationHistory[j][i].scoreChange]
                      = (IF j \in claimHasVoted[c] THEN <<ExpectedChange(c, j)>> ELSE <<>>)

\* C6: once the voting window of an InReview claim has elapsed, finalize can
\* be called (by anyone) and succeeds.
FinalizeSucceeds ==
    \A c \in Submitted :
        claims[c].status = "InReview" /\ ~VotingOpen(c)
            => \A sender \in {Admin, PetOwner, 1} : ENABLED finalizeClaimVoting(sender, c)

\* C7: a vote is rejected if the claim is not InReview, the window
\* has elapsed, the caller is not on the panel or has voted already, and is
\* accepted otherwise.
VotePreconditions(c, j) ==
    /\ claims[c].status = "InReview"
    /\ VotingOpen(c)
    /\ j \in Range(claims[c].juryMembers)
    /\ j \notin claimHasVoted[c]

VoteAcceptedOtherwise ==
    \A c \in ClaimIds, approved \in BOOLEAN :
        \A j \in VoteCallers(c) :
            ENABLED voteOnClaim(j, c, approved) <=> VotePreconditions(c, j)

\* What voteOnClaim does accept: a vote is turned down in those four cases
\* and also when it is the 21st vote of the claim, the votes approve the
\* claim and the payout or a juror reward cannot be transferred; otherwise
\* it is accepted.  An accepted vote sets the has-voted flag of the caller,
\* records its value and adds one to the matching counter and nothing to
\* the other.
PayoutBlocked(c, j, approved) ==
    LET a == claims[c].approveVotes + (IF approved THEN 1 ELSE 0)
        r == claims[c].rejectVotes + (IF approved THEN 0 ELSE 1)
        panel == claims[c].juryMembers
        approvers == claimVoteApproved[c] \cup (IF approved THEN {j} ELSE {})
        rewarded == Cardinality({i \in 1..Len(panel) : panel[i] \in approvers})
    IN /\ a + r = 21
       /\ a * 3 > (a + r) * 2
       /\ \/ guardBalance[PoolAddr] < claims[c].requestedPayoutAmount
          \/ pawBalance[PoolAddr] < rewarded * 5 * Unit

VoteStep(c) ==
    (\/ claimHasVoted'[c] # claimHasVoted[c]
     \/ claimVoteApproved'[c] # claimVoteApproved[c]
     \/ claims'[c].approveVotes # claims[c].approveVotes
     \/ claims'[c].rejectVotes # claims[c].rejectVotes)
    => \E j \in Accounts :
          /\ VotePreconditions(c, j)
          /\ claimHasVoted'[c] = claimHasVoted[c] \cup {j}
          /\ claimVoteApproved'[c] \ {j} = claimVoteApproved[c]
          /\ IF j \in claimVoteApproved'[c]
             THEN /\ claims'[c].approveVotes = claims[c].approveVotes + 1
                  /\ claims'[c].rejectVotes = claims[c].rejectVotes
             ELSE /\ claims'[c].approveVotes = claims[c].approveVotes
                  /\ claims'[c].rejectVotes = claims[c].rejectVotes + 1

VoteGuard ==
    /\ [](\A c \in ClaimIds, approved \in BOOLEAN :
            \A j \in VoteCallers(c) :
                ENABLED voteOnClaim(j, c, approved)
                    <=> (VotePreconditions(c, j) /\ ~PayoutBlocked(c, j, approved)))
    /\ [][\A c \in ClaimIds : VoteStep(c)]_vars

VoteGuardWitness ==
    \E c \in Submitted :
        /\ claims[c].status = "InReview"
        /\ VotingOpen(c)
        /\ claims[c].approveVotes = 20
        /\ \E j \in NextVoter(c) : PayoutBlocked(c, j, TRUE)

\* C8: a successful selectPanel makes the panel of the claim exactly the
\* first 21 eligible stakers in the order of the staker set.
SelectPanelExact ==
    [][\A c \in Submitted :
          claims[c].status = "Pending" /\ claims'[c].status = "InReview"
              => /\ Len(EligibleJurors) >= 21
                 /\ claims'[c].juryMembers = SubSeq(EligibleJurors, 1, 21)]_vars

\* C9: the panel of a claim is empty while the claim is Pending and is 21
\* pairwise distinct participants once the claim has left Pending.
PanelFixed ==
    \A c \in Submitted :
        LET panel == claims[c].juryMembers IN
        IF claims[c].status = "Pending" THEN panel = <<>>
        ELSE Len(panel) = 21 /\ Cardinality(Range(panel)) = 21

\* C10: when a claim for R becomes Approved, the attester receives
\* floor(R*80/100) and the owner the rest of R, in the same step, out of the
\* pool; GUARD leaves the pool in no other step, so no claim is paid twice.
PayoutStep(c) ==
    LET R == claims[c].requestedPayoutAmount
        vet == claims[c].treatingVet
        owner == claims[c].owner
        toVet == (R * 80) \div 100
    IN claims[c].status # "Approved" /\ claims'[c].status = "Approved"
         => /\ guardBalance'[vet] = guardBalance[vet] + toVet
            /\ guardBalance'[owner] = guardBalance[owner] + (R - toVet)
            /\ guardBalance'[PoolAddr] = guardBalance[PoolAddr] - R
            /\ claims'[c].payoutAddresses = <<vet, owner>>
            /\ claims'[c].payoutAmounts = <<toVet, R - toVet>>

PayoutExact ==
    /\ [](\A c \in Submitted :
            /\ Len(claims[c].payoutAmounts) = (IF claims[c].status = "Approved" THEN 2 ELSE 0)
            /\ SumSeq(claims[c].payoutAmounts)
                  = (IF claims[c].status = "Approved"
                     THEN claims[c].requestedPayoutAmount ELSE 0))
    /\ [][\A c \in Submitted : PayoutStep(c)]_vars
    /\ [][guardBalance'[PoolAddr] < guardBalance[PoolAddr]
            => \E c \in Submitted :
                  claims[c].status = "InReview" /\ claims'[c].status = "Approved"]_vars

PayoutExactWitness ==
    \E c \in Submitted :
        /\ claims[c].status = "Approved"
        /\ claims[c].requestedPayoutAmount = 7
        /\ claims[c].payoutAmounts = <<5, 2>>
        /\ guardBalance[Vet] = 5

\* C11: a claim is paid (becomes Approved) only in a state where
\* immediate + stable + risk covers its requested amount.
PayoutNeedsLedgerFunds ==
    [][\A c \in Submitted :
          claims[c].status # "Approved" /\ claims'[c].status = "Approved"
              => PoolsTotal >= claims[c].requestedPayoutAmount]_vars

\* C12: immediate + stable + risk is the GUARD the pool holds.
LedgerMatchesHoldings == PoolsTotal = guardBalance[PoolAddr]

\* C13: a step that changes one of the three pools is a deposit of the
\* amount A the pool receives in it; immediate grows by floor(A*30/100),
\* stable by floor(A*60/100), risk by the rest of A, the three together by A.
DepositStep ==
    LET A == guardBalance'[PoolAddr] - guardBalance[PoolAddr]
        toImmediate == (A * 30) \div 100
        toStable == (A * 60) \div 100
    IN <<immediatePayoutPool, stableYieldPool, riskReservePool>>'
          # <<immediatePayoutPool, stableYieldPool, riskReservePool>>
       => /\ A > 0
          /\ immediatePayoutPool' = immediatePayoutPool + toImmediate
          /\ stableYieldPool' = stableYieldPool + toStable
          /\ riskReservePool' = riskReservePool + (A - toImmediate - toStable)
          /\ PoolsTotal' = PoolsTotal + A

DepositSplitExact == [][DepositStep]_vars

DepositSplitWitness ==
    \E A \in FundAmounts :
        /\ A % 10 # 0
        /\ PoolsTotal = A
        /\ riskReservePool > (A * 10) \div 100

\* C14: the premium of a pet is floor(basePremium * (100 + 10 * records) / 100),
\* and payPremium is accepted exactly when the caller is the recorded owner
\* of the pet, the amount is at least that premium and the caller holds it.
PremiumGate ==
    LET records == petRecords[1].medicalHistoryLength
        premium == (basePremium * (100 + 10 * records)) \div 100
    IN /\ getPetPremium(1) = premium
       /\ \A sender \in FundActors, amount \in FundAmounts :
             ENABLED payPremium(sender, 1, amount)
                <=> /\ sender = petRecords[1].owner
                    /\ amount >= premium
                    /\ guardBalance[sender] >= amount

PremiumGateWitness ==
    /\ petRecords[1].medicalHistoryLength = 1
    /\ guardBalance[Admin] >= basePremium + 10 * Unit
    /\ guardBalance[PetOwner] >= basePremium
    /\ guardBalance[PetOwner] < basePremium + 10 * Unit
    /\ PoolsTotal > 0

\* C15: a step that creates a claim gives it the next id, takes the fee,
\* and leaves the new claim Pending with no votes and an empty panel.
SubmitCreatesFreshClaim ==
    [][claimIdCounter' # claimIdCounter
          => LET n == claimIdCounter' IN
             /\ n = claimIdCounter + 1
             /\ guardBalance'[PoolAddr] = guardBalance[PoolAddr] + claimSubmissionFee
             /\ claims'[n].status = "Pending"
             /\ claims'[n].approveVotes = 0
             /\ claims'[n].rejectVotes = 0
             /\ claims'[n].juryMembers = <<>>]_vars

\* C16: a credential is valid iff it exists, is Active and expires strictly
\* after now; a claim naming a holder as treating vet is accepted only while
\* the holder's credential is valid, so not once now has reached the
\* expiration date, although the stored status is still Active.
NotExpired(v) == credentials[v].expirationDate > now

ValidUntilExpiry ==
    \A v \in CredHolders :
        /\ isValidCredential(v)
              <=> /\ credentials[v].vetAddress = v
                  /\ credentials[v].status = "Active"
                  /\ NotExpired(v)
        /\ ENABLED submitClaim(PetOwner, 1, v, Diagnosis, 100)
              <=> /\ v \in Range(petRecords[1].authorizedVets)
                  /\ credentials[v].vetAddress = v
                  /\ credentials[v].status = "Active"
                  /\ NotExpired(v)
                  /\ guardBalance[PetOwner] >= claimSubmissionFee
                  /\ claimIdCounter < MaxClaims

ValidUntilExpiryWitness ==
    /\ Vet2 \in Range(petRecords[1].authorizedVets)
    /\ credentials[Vet2].status = "Active"
    /\ credentials[Vet2].expirationDate = now
    /\ claimIdCounter = 0
    /\ guardBalance[PetOwner] >= claimSubmissionFee

\* C17: no two holders have credentials with the same licence number.
LicenseBoundOnce ==
    \A v, w \in CredHolders :
        (/\ v # w
         /\ CredentialExists(v)
         /\ CredentialExists(w))
        => credentials[v].licenseNumber # credentials[w].licenseNumber

\* C18: a Revoked credential is not valid, and no step changes the status
\* of a Revoked credential or removes a credential.
RevocationTerminal ==
    /\ [](\A v \in CredHolders :
            credentials[v].status = "Revoked" => ~isValidCredential(v))
    /\ [][\A v \in CredHolders :
            /\ credentials[v].status = "Revoked" => credentials'[v].status = "Revoked"
            /\ CredentialExists(v) => credentials'[v].vetAddress = v]_vars

RevocationTerminalWitness ==
    /\ credentials[Vet].status = "Revoked"
    /\ credentials[Vet].expirationDate = StartTime + 366
    /\ credentials[Vet].totalRecordsIssued > 0
    /\ credentials[Vet2].status = "Revoked"
    /\ CredentialExists(Vet2)

\* C19: revokeCredential is turned down on a credential that is Revoked.
RevokeRejectedOnRevoked ==
    \A v \in CredHolders :
        credentials[v].status = "Revoked" => ~ENABLED revokeCredential(Admin, v)

\* C20: the issuer can renew an existing credential exactly to a date after
\* now and after its expiration date; a step that changes the expiration
\* date of a credential sets such a date, makes an Expired status Active
\* and leaves every other status as it is.
RenewStep(v) ==
    (CredentialExists(v)
     /\ credentials'[v].expirationDate # credentials[v].expirationDate)
    => /\ credentials'[v].expirationDate > now
       /\ credentials'[v].expirationDate > credentials[v].expirationDate
       /\ credentials'[v].status
             = (IF credentials[v].status = "Expired" THEN "Active"
                ELSE credentials[v].status)

RenewEffect ==
    /\ [](\A v \in CredHolders, e \in ExpirationDates :
            ENABLED renewCredential(Admin, v, e)
               <=> /\ CredentialExists(v)
                   /\ e > now
                   /\ e > credentials[v].expirationDate)
    /\ [][\A v \in CredHolders : RenewStep(v)]_vars

RenewEffectWitness ==
    /\ credentials[Vet].status = "Suspended"
    /\ credentials[Vet].expirationDate = StartTime + 366
    /\ credentials[Vet2].status = "Revoked"
    /\ credentials[Vet2].expirationDate > now + 1

\* C21: the reputation of a credential is between 0 and 1000.
VetReputationInRange ==
    \A v \in CredHolders :
        credentials[v].reputationScore >= 0 /\ credentials[v].reputationScore <= 1000

\* C22: a participant is eligible iff it is registered, Verified, active,
\* with reputation and stake at least the two floors, and, if it has voted,
\* with less than the inactivity period elapsed since its last vote.
Registered(a) == juryMembers[a].memberAddress = a

Standing(a) ==
    /\ Registered(a)
    /\ juryMembers[a].status = "Verified"
    /\ juryMembers[a].isActive
    /\ juryMembers[a].reputationScore >= minimumReputationForJury
    /\ juryMembers[a].stakingAmount >= minimumStakeForJury

HasVoted(a) == juryMembers[a].lastVoteTimestamp # 0

SinceLastVote(a) == now - juryMembers[a].lastVoteTimestamp

EligibleIffRecentStrictly ==
    \A a \in PanelActors :
        isEligibleForJury(a)
            <=> /\ Standing(a)
                /\ HasVoted(a) => SinceLastVote(a) < inactivityPenaltyPeriod

\* C22 as amended: ... and, if it has voted, with at most the inactivity
\* period elapsed since its last vote.
EligibleIffRecent ==
    \A a \in PanelActors :
        isEligibleForJury(a)
            <=> /\ Standing(a)
                /\ HasVoted(a) => SinceLastVote(a) <= inactivityPenaltyPeriod

EligibleIffRecentWitness ==
    /\ Standing(Juror)
    /\ juryMembers[Juror].reputationScore < 500
    /\ HasVoted(Juror)
    /\ SinceLastVote(Juror) = inactivityPenaltyPeriod
    /\ ~Registered(Newcomer)

\* C23: no two distinct participants hold passing checkpoints with the same
\* identity hash.
PassedHashes(a) ==
    {sybilChecks[a][i].identityHash : i \in {k \in 1..Len(sybilChecks[a]) : sybilChecks[a][k].passed}}

IdentityHashOnce ==
    \A p, q \in PanelActors : p # q => PassedHashes(p) \cap PassedHashes(q) = {}

\* C24: the reputation of a juror is between 0 and 1000; a change by d
\* leaves max(0, min(1000, reputation + d)), so 998 +5 +5 is 1000 and
\* 1 -2 -2 is 0; and the reputation changes in no other way.
ScoreChanges(a) ==
    [i \in 1..Len(reputationHistory[a]) |-> reputationHistory[a][i].scoreChange]

ReputationStep(a) ==
    LET old == juryMembers[a].reputationScore
        changes == ScoreChanges(a)'
        d == changes[Len(changes)]
    IN IF reputationHistory'[a] = reputationHistory[a]
       THEN juryMembers'[a].reputationScore = old
       ELSE /\ Len(changes) = Len(ScoreChanges(a)) + 1
            /\ old + d > 1000 => juryMembers'[a].reputationScore = 1000
            /\ old + d < 0 => juryMembers'[a].reputationScore = 0
            /\ (old + d >= 0 /\ old + d <= 1000) => juryMembers'[a].reputationScore = old + d

ReputationClamped ==
    /\ [](\A a \in PanelActors :
            /\ juryMembers[a].reputationScore >= 0
            /\ juryMembers[a].reputationScore <= 1000
            /\ ScoreChanges(a) = <<498, 5, 5>> => juryMembers[a].reputationScore = 1000
            /\ ScoreChanges(a) = <<-499, -2, -2>> => juryMembers[a].reputationScore = 0)
    /\ [][\A a \in PanelActors : Registered(a) => ReputationStep(a)]_vars

ReputationClampedWitness ==
    /\ ScoreChanges(Juror) = <<498, 5, 5>>
    /\ juryMembers[Juror].reputationScore = 1000
    /\ juryMembers[Juror].totalVotes = 2

\* C25: register is accepted exactly when registration is open or the
\* caller is on the access list, the caller is not registered, and the DID
\* is non-empty and the DID of no registered participant; the new record is
\* Unverified, active, with reputation 500, no stake and no votes; no record
\* is ever removed, and no two registered participants share a DID.
DidBound(did) == \E a \in Accounts : Registered(a) /\ juryMembers[a].did = did

RegisterStep(a) ==
    IF Registered(a) THEN juryMembers'[a].memberAddress = a /\ juryMembers'[a].did = juryMembers[a].did
    ELSE juryMembers'[a] # juryMembers[a] =>
            /\ juryMembers'[a].memberAddress = a
            /\ juryMembers'[a].status = "Unverified"
            /\ juryMembers'[a].isActive
            /\ juryMembers'[a].reputationScore = 500
            /\ juryMembers'[a].stakingAmount = 0
            /\ juryMembers'[a].totalVotes = 0
            /\ juryMembers'[a].consistentVotes = 0
            /\ juryMembers'[a].lastVoteTimestamp = 0
            /\ juryMembers'[a].participatedClaims = <<>>
            /\ juryMembers'[a].did # ""
            /\ ~DidBound(juryMembers'[a].did)
            /\ openRegistration \/ a \in registrationEnabled

BanPermanent ==
    /\ [](\A a \in PanelActors :
            /\ ENABLED reinstateMember(Admin, a) => juryMembers[a].status = "Suspended"
            /\ juryMembers[a].status = "Banned" => ~isEligibleForJury(a))
    /\ [][\A a \in PanelActors :
            juryMembers[a].status = "Banned" => juryMembers'[a].status = "Banned"]_vars

\* C27: the staker set holds exactly the participants with a positive
\* stake, each once; unstakePaw is turned down for more than the stake; and
\* a panel selection appends only participants with a positive stake.
Appended(c) ==
    {claims'[c].juryMembers[i] :
        i \in (Len(claims[c].juryMembers) + 1)..Len(claims'[c].juryMembers)}

StakerSetExact ==
    /\ [](/\ \A a \in Accounts : a \in Range(stakers) <=> pawStakes[a] > 0
          /\ Cardinality(Range(stakers)) = Len(stakers)
          /\ \A a \in PanelActors, amount \in StakeAmounts :
                ENABLED unstakePaw(a, amount) => amount <= pawStakes[a])
    /\ [][\A c \in ClaimIds : \A j \in Appended(c) : pawStakes[j] > 0]_vars

StakerSetWitness ==
    /\ pawStakes[Juror] = 0
    /\ pawBalance[Juror] = minimumStakeForJury
    /\ stakers[Juror] = Newcomer
    /\ pawStakes[NumOnboarded] = minimumStakeForJury
    /\ \E c \in ClaimIds :
          /\ Len(claims[c].juryMembers) = REQUIRED_JURY_VOTES
          /\ Newcomer \in Range(claims[c].juryMembers)
          /\ Juror \notin Range(claims[c].juryMembers)

\* C28: a vote that would complete 21 votes and approve the claim while the
\* payout or a reward cannot be transferred is turned down as a whole, and
\* so is such a finalize call; no step leaves a part of an evaluation
\* behind: the votes reach 21 only together with the verdict, a verdict of
\* Approved only together with the payout, the rewards and the attester's
\* counter, a verdict by finalize only together with the recorded votes of
\* all voters, and none of these effects happens without the verdict.
Votes(c) == claims[c].approveVotes + claims[c].rejectVotes

FinalizeBlocked(c) ==
    LET a == claims[c].approveVotes
        r == claims[c].rejectVotes
        panel == claims[c].juryMembers
        rewarded == Cardinality({i \in 1..Len(panel) : panel[i] \in claimVoteApproved[c]})
    IN /\ a * 3 > (a + r) * 2
       /\ \/ guardBalance[PoolAddr] < claims[c].requestedPayoutAmount
          \/ pawBalance[PoolAddr] < rewarded * PAW_REWARD_PER_JUROR

Verdict(c) == claims[c].status = "InReview" /\ Terminal(claims'[c].status)

Approval(c) == Verdict(c) /\ claims'[c].status = "Approved"

VerdictStep(c) ==
    LET R == claims[c].requestedPayoutAmount
        vet == claims[c].treatingVet
        panel == claims[c].juryMembers
        rewarded == Cardinality({i \in 1..Len(panel) : panel[i] \in claimVoteApproved'[c]})
        paid == /\ guardBalance'[PoolAddr] = guardBalance[PoolAddr] - R
                /\ pawBalance'[PoolAddr] = pawBalance[PoolAddr] - rewarded * PAW_REWARD_PER_JUROR
                /\ credentials'[vet].totalClaimsApproved
                      = credentials[vet].totalClaimsApproved + 1
                /\ Len(claims'[c].payoutAmounts) = Len(claims[c].payoutAmounts) + 2
    IN /\ (Votes(c) < 21 /\ Votes(c)' = 21) => Verdict(c)
       /\ Approval(c) => paid
       /\ (Verdict(c) /\ Votes(c)' = Votes(c)) =>
             \A j \in claimHasVoted[c] : c \in hasVotedOnClaim'[j]
       /\ ~Approval(c) => claims'[c].payoutAmounts = claims[c].payoutAmounts
       /\ ~Verdict(c) =>
             \A j \in Accounts : (c \in hasVotedOnClaim'[j]) = (c \in hasVotedOnClaim[j])

NoPayoutWithoutApproval ==
    (\A c \in ClaimIds : ~Approval(c)) =>
        /\ pawBalance' = pawBalance
        /\ credentials' = credentials
        /\ guardBalance'[PoolAddr] >= guardBalance[PoolAddr]

AllOrNothing ==
    /\ [](\A c \in ClaimIds :
            /\ \A approved \in BOOLEAN : \A j \in VoteCallers(c) :
                  (VotePreconditions(c, j) /\ PayoutBlocked(c, j, approved))
                      => ~ENABLED voteOnClaim(j, c, approved)
            /\ (claims[c].status = "InReview" /\ ~VotingOpen(c) /\ FinalizeBlocked(c))
                  => ~ENABLED finalizeClaimVoting(PetOwner, c))
    /\ [][(\A c \in ClaimIds : VerdictStep(c)) /\ NoPayoutWithoutApproval]_vars

AllOrNothingWitness ==
    \E c \in Submitted :
        /\ claims[c].status = "InReview"
        /\ VotingOpen(c)
        /\ claims[c].approveVotes = 20
        /\ claims[c].rejectVotes = 0
        /\ guardBalance[PoolAddr] < claims[c].requestedPayoutAmount
        /\ \E j \in NextVoter(c) :
              /\ ~ENABLED voteOnClaim(j, c, TRUE)
              /\ ~ENABLED voteOnClaim(j, c, FALSE)

\* C29: in the step that makes a claim Approved every panelist whose
\* recorded vote is approve receives one reward of PAW_REWARD_PER_JUROR and
\* nobody else receives PAW; in a step that makes a claim Rejected nobody
\* receives PAW.
RewardStep(c) ==
    LET panelists == Range(claims[c].juryMembers)
        approvers == {j \in panelists : j \in claimHasVoted'[c] /\ j \in claimVoteApproved'[c]}
    IN (claims[c].status = "InReview" /\ Terminal(claims'[c].status)) =>
          \A j \in Accounts :
              pawBalance'[j] = pawBalance[j]
                 + (IF claims'[c].status = "Approved" /\ j \in approvers
                    THEN PAW_REWARD_PER_JUROR ELSE 0)

RewardPerApprover == [][\A c \in ClaimIds : RewardStep(c)]_vars

\* C30: performSybilCheck is accepted only from a verifier or the
\* administrator and for a registered participant; a failed check, and a
\* passing check with a hash the participant has passed with before, are
\* always accepted from them.  A step changes the checkpoints only by
\* appending one checkpoint to one list; with a failed checkpoint no hash
\* becomes used and no record changes; with a passing one its hash is used
\* afterwards and the participant's status goes from Unverified to Verified
\* and is otherwise unchanged.
TotalChecks == Len(sybilChecks[Juror]) + Len(sybilChecks[Newcomer])

CheckStep(a) ==
    LET old == sybilChecks[a]
        new == sybilChecks'[a]
        cp == new[Len(new)]
        status == juryMembers[a].status
    IN new # old =>
          /\ Len(new) = Len(old) + 1
          /\ SubSeq(new, 1, Len(old)) = old
          /\ TotalChecks' = TotalChecks + 1
          /\ cp.verifier = Admin \/ cp.verifier \in isVerifier
          /\ Registered(a)
          /\ IF cp.passed
             THEN /\ usedIdentityHashes' = usedIdentityHashes \cup {cp.identityHash}
                  /\ juryMembers' = [juryMembers EXCEPT ![a].status =
                         IF status = "Unverified" THEN "Verified" ELSE status]
                  /\ status \in {"Suspended", "Banned"} => juryMembers'[a].status = status
             ELSE /\ usedIdentityHashes' = usedIdentityHashes
                  /\ juryMembers' = juryMembers

CheckpointAppendOnly ==
    /\ [](\A sender \in RegistryCallers, a \in PanelActors, h \in IdentityHashes :
            LET authorized == sender = Admin \/ sender \in isVerifier IN
            /\ \A passed \in BOOLEAN :
                  ENABLED performSybilCheck(sender, a, h, passed)
                      => authorized /\ Registered(a)
            /\ (authorized /\ Registered(a)) => ENABLED performSybilCheck(sender, a, h, FALSE)
            /\ (authorized /\ Registered(a) /\ h \in PassedHashes(a))
                  => ENABLED performSybilCheck(sender, a, h, TRUE))
    /\ [][/\ \A a \in PanelActors : CheckStep(a)
          /\ usedIdentityHashes' # usedIdentityHashes => TotalChecks' # TotalChecks]_vars

CheckpointWitness ==
    /\ juryMembers[Juror].status = "Banned"
    /\ Len(sybilChecks[Juror]) = 2
    /\ sybilChecks[Juror][2].passed
    /\ sybilChecks[Juror][2].identityHash = Juror
    /\ sybilChecks[Juror][2].verifier = PetOwner
    /\ Len(sybilChecks[Newcomer]) = 2
    /\ ~sybilChecks[Newcomer][1].passed
    /\ sybilChecks[Newcomer][2].passed
    /\ juryMembers[Newcomer].status = "Verified"

\* C31: recordVote for a registered participant is turned down iff the
\* registry has a vote of the participant on the claim recorded; an accepted
\* call adds one to the total votes, one to the consistent votes iff
\* votedWithMajority, sets the last vote to now, appends the claim to the
\* participated claims and appends one history entry of +5 or -2, and nothing
\* else changes these counters.  So consistent <= total = length of the
\* participated claims, which name no claim twice, and the consistency is
\* the integer part of 100 * consistent / total (0 with no vote).
Participated(a) == Range(juryMembers[a].participatedClaims)

RecordStep(a) ==
    LET old == juryMembers[a]
        new == juryMembers'[a]
        history == reputationHistory'[a]
        entry == history[Len(history)]
        recorded == new.totalVotes # old.totalVotes
    IN /\ recorded =>
             /\ new.totalVotes = old.totalVotes + 1
             /\ new.consistentVotes \in {old.consistentVotes, old.consistentVotes + 1}
             /\ new.lastVoteTimestamp = now
             /\ Len(new.participatedClaims) = Len(old.participatedClaims) + 1
             /\ SubSeq(new.participatedClaims, 1, Len(old.participatedClaims))
                   = old.participatedClaims
             /\ new.participatedClaims[Len(new.participatedClaims)] \notin Participated(a)
             /\ Len(history) = Len(reputationHistory[a]) + 1
             /\ SubSeq(history, 1, Len(reputationHistory[a])) = reputationHistory[a]
             /\ entry.scoreChange
                   = (IF new.consistentVotes = old.consistentVotes + 1 THEN 5 ELSE -2)
       /\ ~recorded =>
             /\ new.consistentVotes = old.consistentVotes
             /\ new.lastVoteTimestamp = old.lastVoteTimestamp
             /\ new.participatedClaims = old.participatedClaims
             /\ hasVotedOnClaim'[a] = hasVotedOnClaim[a]

RecordVoteConsistent ==
    /\ [](\A a \in PanelActors :
            LET total == juryMembers[a].totalVotes
                consistent == juryMembers[a].consistentVotes
                pct == getVotingConsistency(a)
            IN /\ consistent >= 0
               /\ consistent <= total
               /\ total = Len(juryMembers[a].participatedClaims)
               /\ Cardinality(Participated(a)) = total
               /\ hasVotedOnClaim[a] = Participated(a)
               /\ total = 0 => pct = 0
               /\ total > 0 => (pct * total <= 100 * consistent
                                /\ 100 * consistent < (pct + 1) * total)
               /\ Registered(a) =>
                     \A claimId \in VoteIds, votedWithMajority \in BOOLEAN :
                         ENABLED recordVote(PetOwner, a, claimId, votedWithMajority)
                            <=> claimId \notin Participated(a))
    /\ [][\A a \in PanelActors : RecordStep(a)]_vars

RecordVoteWitness ==
    /\ juryMembers[Juror].totalVotes = 2
    /\ juryMembers[Juror].consistentVotes = 1
    /\ getVotingConsistency(Juror) = 50
    /\ ScoreChanges(Juror) = <<5, 1000, -2>>
    /\ ~ENABLED recordVote(PetOwner, Juror, 1, TRUE)

\* C32: on an InReview claim a vote is accepted only while now is at most
\* submission + voting period and finalize only after that, so never both;
\* where nothing else turns the call down (the caller is a panelist that has
\* not voted, the payout and the rewards can be transferred, the votes can
\* be recorded) a vote is accepted iff now <= submission + voting period and
\* finalize iff now > submission + voting period.  now never decreases and a
\* claim whose window is over never has an open window again.
Recordable(c) ==
    \A j \in claimHasVoted[c] :
        Occurrences(claims[c].juryMembers, j) = 1 /\ c \notin hasVotedOnClaim[j]

TimeGates ==
    /\ [](\A c \in ClaimIds : claims[c].status = "InReview" =>
            /\ \A approved \in BOOLEAN : \A j \in VoteCallers(c) :
                  IF VotingOpen(c)
                  THEN (/\ j \in Range(claims[c].juryMembers)
                        /\ j \notin claimHasVoted[c]
                        /\ ~PayoutBlocked(c, j, approved))
                           => ENABLED voteOnClaim(j, c, approved)
                  ELSE ~ENABLED voteOnClaim(j, c, approved)
            /\ IF VotingOpen(c)
               THEN ~finalizeAccepted(c)
               ELSE (~FinalizeBlocked(c) /\ Recordable(c)) => finalizeAccepted(c))
    /\ [][/\ now' >= now
          /\ \A c \in ClaimIds :
                /\ (claims[c].status = "InReview" /\ ~VotingOpen(c))
                      => ~(claims'[c].status = "InReview" /\ VotingOpen(c)')
                /\ (claims[c].status = "InReview" /\ Terminal(claims'[c].status)
                    /\ Votes(c)' = Votes(c)) => ~VotingOpen(c)]_vars

TimeGatesWitness ==
    \E c \in Submitted :
        /\ claims[c].status = "InReview"
        /\ now = claims[c].submissionTimestamp + juryVotingPeriod + 1
        /\ Votes(c) > 0
        /\ Votes(c) < REQUIRED_JURY_VOTES
        /\ finalizeAccepted(c)
        /\ \E j \in NextVoter(c) : ~ENABLED voteOnClaim(j, c, TRUE)

\* C33: the voting window runs from the submission of the claim: a panel
\* selected after submission + voting period leaves the claim InReview with
\* the window over and no vote cast, no vote is accepted or counted once the
\* window is over, finalize is then accepted on a claim without votes, and a
\* claim that is evaluated without votes becomes Rejected.
LateSelection(c) ==
    /\ claims[c].status = "Pending"
    /\ claims'[c].status = "InReview"
    /\ now > claims[c].submissionTimestamp + juryVotingPeriod

WindowFromSubmission ==
    /\ [](\A c \in Submitted :
            /\ claims[c].status = "Pending" => Votes(c) = 0
            /\ (claims[c].status = "InReview" /\ ~VotingOpen(c)) =>
                  /\ \A approved \in BOOLEAN : \A j \in VoteCallers(c) :
                        ~ENABLED voteOnClaim(j, c, approved)
                  /\ Votes(c) = 0 => finalizeAccepted(c)
            /\ (Terminal(claims[c].status) /\ Votes(c) = 0) => claims[c].status = "Rejected")
    /\ [][\A c \in Submitted :
            /\ LateSelection(c) => (Votes(c)' = 0 /\ ~VotingOpen(c)')
            /\ ~VotingOpen(c) => (Votes(c)' = Votes(c) /\ ~VotingOpen(c)')
            /\ (claims[c].status = "InReview" /\ Votes(c)' = 0 /\ Terminal(claims'[c].status))
                  => claims'[c].status = "Rejected"]_vars

WindowFromSubmissionWitness ==
    \E c \in Submitted :
        /\ claims[c].status = "Rejected"
        /\ Votes(c) = 0
        /\ Len(claims[c].juryMembers) = REQUIRED_JURY_VOTES
        /\ now = claims[c].submissionTimestamp + juryVotingPeriod + 1

\* C34: selectJury, voteOnClaim and finalizeClaimVoting are turned down for
\* a claim id that submitClaim has not produced, and such an id has no
\* panel and its record is untouched.
UnsubmittedUntouched ==
    \A c \in ClaimIds \ Submitted :
        /\ ~ENABLED selectJury(Admin, c)
        /\ \A approved \in BOOLEAN : \A j \in VoteCallers(c) :
              ~ENABLED voteOnClaim(j, c, approved)
        /\ ~finalizeAccepted(c)
        /\ claims[c] = EmptyClaim

\* C35: the claims-approved counter of a credential is the number of
\* Approved claims whose treating vet is the holder.
ApprovedClaimsOf(v) ==
    {c \in ClaimIds : claims[c].status = "Approved" /\ claims[c].treatingVet = v}

ApprovedCounterExact ==
    \A v \in CredHolders :
        credentials[v].totalClaimsApproved = Cardinality(ApprovedClaimsOf(v))

\* C36: the payout recipients and amounts of a claim are non-empty iff the
\* claim is Approved: for an Approved claim the recipients are the treating
\* vet and the owner, in this order, with two amounts that add up to the
\* requested amount; for every other claim both lists are empty.
PayoutListsOnApproval ==
    \A c \in ClaimIds :
        LET claim == claims[c] IN
        /\ (claim.payoutAddresses # <<>>) <=> claim.status = "Approved"
        /\ (claim.payoutAmounts # <<>>) <=> claim.status = "Approved"
        /\ claim.status = "Approved" =>
              /\ claim.payoutAddresses = <<claim.treatingVet, claim.owner>>
              /\ Len(claim.payoutAmounts) = 2
              /\ claim.payoutAmounts[1] >= 0
              /\ claim.payoutAmounts[2] >= 0
              /\ claim.payoutAmounts[1] + claim.payoutAmounts[2] = claim.requestedPayoutAmount

PayoutListsWitness ==
    \E c \in Submitted :
        /\ claims[c].status = "Approved"
        /\ claims[c].payoutAddresses = <<Vet, PetOwner>>
        /\ claims[c].payoutAmounts = <<80, 20>>
        /\ Len(claims[c].juryMembers) = 2 * REQUIRED_JURY_VOTES

\* C37: for every registered participant the staking amount in the jury
\* registry is the participant's stake in the pool.
StakeMirrored ==
    \A a \in Accounts : Registered(a) => juryMembers[a].stakingAmount = pawStakes[a]

\* C38: the PAW the pool holds covers the stakes of all participants.
RECURSIVE TotalStaked(_)
TotalStaked(S) ==
    IF S = {} THEN 0
    ELSE LET a == CHOOSE x \in S : TRUE IN pawStakes[a] + TotalStaked(S \ {a})

StakesCovered == pawBalance[PoolAddr] >= TotalStaked(Accounts)

\* C39: a participant whose status is Verified, and so every eligible
\* participant, has a passing checkpoint in its list of sybil checks.
HasPassedCheck(a) == \E i \in 1..Len(sybilChecks[a]) : sybilChecks[a][i].passed

VerifiedHasPassed ==
    \A a \in PanelActors :
        /\ juryMembers[a].status = "Verified" => HasPassedCheck(a)
        /\ isEligibleForJury(a) => HasPassedCheck(a)

\* C40: the recorded owner of every registered pet holds the one token of
\* the pet, and nobody else holds a token of it.
RecordedOwnerHolds ==
    \A p \in 1..petIdCounter :
        \A a \in Accounts : petBalance[p][a] = (IF a = petRecords[p].owner THEN 1 ELSE 0)

====
